---- MODULE Spec2Model ----
(***************************************************************************)
(* A model of Alfred's Store (src/Alfred/src/Store.cpp, the revision with  *)
(* role-based projection, lines 245-697) and of the HTTP handler that      *)
(* reads it.                                                               *)
(*                                                                         *)
(* Two specifications share the variables:                                *)
(*   SpecGet  the projection GetData applied to a loaded document;         *)
(*   Spec     the lifecycle and the coalescing save scheduler under a      *)
(*            discrete clock.                                              *)
(***************************************************************************)
EXTENDS Integers, Sequences, FiniteSets, TLC

VARIABLES
    store,            \* Impl::store: the document
    mobilized,        \* Impl::mobilized
    generation,       \* Impl::generation
    minSaveInterval,  \* Impl::minSaveInterval
    saving,           \* Impl::saving
    dirty,            \* Impl::dirty
    nextSaveTime,     \* Impl::nextSaveTime
    nextSaveToken,    \* Impl::nextSaveToken
    scheduled,        \* callbacks held by Impl::scheduler, not yet dispatched
    dispatched,       \* callbacks taken by the scheduler thread, waiting for Impl::mutex
    tokens,           \* number of tokens the scheduler has handed out
    now,              \* the clock's current time
    caller,           \* who made the last GetData call: "none", "api" or "http"
    path,             \* the path argument of the last GetData call
    rolesHeld,        \* the rolesHeld argument of the last GetData call
    result,           \* the value the last GetData call returned
    unsaved,          \* history: a mutation was made that no Save has run after
    lastMutation,     \* history: the time of the last mutation
    winFirst,         \* history: the time of the first mutation of the observed window, -1 if none
    winCount,         \* history: the number of mutations in the observed window
    winSaves,         \* history: the number of Save executions since the window began
    lastScheduled,    \* history: the last callback ScheduleSave gave the scheduler
    orphaned,         \* history: the callbacks not yet run that a Demobilize left behind
    alive,            \* the Store and its Impl exist
    mutex,            \* Impl::mutex: the thread that holds it, or "none"
    stack,            \* per thread, the calls into the Store it is inside of
    subscribers,      \* Impl::subscribers
    nextSubscriptionToken, \* Impl::nextSubscriptionToken
    closures,         \* the cancel closures SubscribeToData has returned
    subLog,           \* history: per SubscribeToData call, the document at registration and the onUpdate calls
    lastCall,        \* history: the SubscribeToData call the last step was about, 0 if none
    session,          \* the session: "none" before OnOpened, "open", "closed" once closed
    authenticated,    \* Client::authenticated
    authenticationTimeout, \* Client::authenticationTimeout: the timer's token, or 0
    identifiers,      \* Client::identifiers
    roles,            \* Client::roles
    httpClientTransactions, \* Client::httpClientTransactions: the ids in flight
    nextHttpClientTransactionId, \* Client::nextHttpClientTransactionId
    inFlight,         \* the ids of the transactions the Http client has not completed yet
    callbacks,        \* history: per onCompletion call, its id and the table it found
    authTimer,        \* the callback OnOpened gave the scheduler: its state and time
    closing,          \* the threads that have left ReportError's mutex to call closeDelegate
    frames,           \* the texts sent to the peer, in order
    closeCodes,       \* the codes the WebSocket was closed with, in order
    openTime,         \* history: the time of OnOpened
    received,         \* history: the number of texts received
    lastMessage,      \* history: the last text received, parsed
    lastResponse,     \* history: the last response of the outbound validation
    inherited,        \* the RolesPermitted that UpdateRoles was last called with
    nodeMeta,         \* the meta that UpdateRoles was last called with
    required,         \* the RolesPermitted between the require and the allow step of that call
    innerRolesPermitted, \* the RolesPermitted that call left, which the next call starts from
    httpRequest,      \* the last request given to a resource's delegate: the resource, the method, the path
    httpResponse,     \* the Http::Response that delegate returned
    handled,          \* history: the handler that delegate called, or "none"
    clients,          \* ApiWs::Impl::clients: per WebSocket "absent", "client" or "null"
    listenerMobilized, \* ApiWs::Impl::mobilized
    listenerGeneration, \* ApiWs::Impl::generation
    sockets,          \* the number of WebSockets HandleWebSocketRequest has registered
    createdIn,        \* per WebSocket, the generation its delegates captured, 0 if none
    lingers,          \* the erase callbacks CloseWebSocket gave a scheduler, not yet run
    pending,          \* the delegate calls that have begun and wait for ApiWs::Impl::mutex
    delivered,        \* the number of delegate calls the WebSockets have made
    wsCloses,         \* history: per WebSocket, the number of ws->Close calls
    onClosedCalls,    \* history: per WebSocket, the number of Client::OnClosed calls
    closedAt,         \* history: per WebSocket, the time CloseWebSocket nulled its slot, -1 if never
    texts,            \* history: per WebSocket, the number of texts given to Client::OnText
    nullDeref,        \* history: OnText was called through a null slot
    crashed,          \* the process has ended
    lastRan,          \* history: the closure the last step ran
    lockOwner,        \* per mutex, the thread that holds it, or "none"
    lockDepth,        \* per mutex, how many times its owner has locked it
    program,          \* per thread, the steps its call has still to take
    started,          \* per thread, the number of calls it has begun
    sessionSlot,      \* the session's entry in ApiWs::Impl::clients: "client", "null" or "absent"
    listening,        \* ApiWs::Impl::mobilized, as the lock steps see it
    processEnded,     \* a call through a null slot has ended the process
    runPc,            \* where Service::Impl::Run is
    daemon,           \* Environment::daemon: no SIGINT handler is installed
    shutDown,         \* the shutDown flag of Service.cpp
    stopServiceSet,   \* Service::Impl::stopServiceSet
    stopService,      \* history: the number of stopService.set_value() calls
    stops,            \* history: the number of Service::Stop calls
    interrupts,       \* history: the number of SIGINTs delivered
    shutDownOrder,    \* history: the components ShutDown has demobilized, in order
    exitCode,         \* what Run returned, -1 while it has not
    lastOp            \* history: what the last step did

vars == << store, mobilized, generation, minSaveInterval, saving, dirty,
           nextSaveTime, nextSaveToken, scheduled, dispatched, tokens, now,
           caller, path, rolesHeld, result,
           unsaved, lastMutation, winFirst, winCount, winSaves, orphaned,
           lastScheduled,
           alive, mutex, stack, subscribers, nextSubscriptionToken, closures,
           subLog, lastCall,
           session, authenticated, authenticationTimeout, identifiers, roles,
           httpClientTransactions, nextHttpClientTransactionId, inFlight,
           callbacks, authTimer,
           closing, frames, closeCodes, openTime, received, lastMessage,
           lastResponse,
           inherited, nodeMeta, required, innerRolesPermitted,
           httpRequest, httpResponse, handled,
           clients, listenerMobilized, listenerGeneration, sockets, createdIn,
           lingers, pending, delivered, wsCloses, onClosedCalls, closedAt, texts,
           nullDeref, crashed, lastRan,
           lockOwner, lockDepth, program, started, sessionSlot, listening,
           processEnded,
           runPc, daemon, shutDown, stopServiceSet, stopService, stops, interrupts,
           shutDownOrder, exitCode,
           lastOp >>

storeVars == << mobilized, generation, minSaveInterval, saving, dirty,
                nextSaveTime, nextSaveToken, scheduled, dispatched, tokens, now >>
queryVars == << caller, path, rolesHeld, result >>
histVars  == << unsaved, lastMutation, winFirst, winCount, winSaves, orphaned,
                lastScheduled >>
subVars   == << alive, mutex, stack, subscribers, nextSubscriptionToken,
                closures, subLog, lastCall >>
wsVars    == << session, authenticated, authenticationTimeout, identifiers, roles,
                httpClientTransactions, nextHttpClientTransactionId, inFlight,
                callbacks, authTimer,
                closing, frames, closeCodes, openTime, received, lastMessage,
                lastResponse >>
roleVars  == << inherited, nodeMeta, required, innerRolesPermitted >>
httpVars  == << httpRequest, httpResponse, handled >>
apiVars   == << clients, listenerMobilized, listenerGeneration, sockets, createdIn,
                lingers, pending, delivered, wsCloses, onClosedCalls, closedAt,
                texts, nullDeref, crashed, lastRan >>
lockVars  == << lockOwner, lockDepth, program, started, sessionSlot, listening,
                processEnded >>
svcVars   == << runPc, daemon, shutDown, stopServiceSet, stopService, stops,
                interrupts, shutDownOrder, exitCode >>
moreVars  == << lockVars, svcVars >>
extVars   == << roleVars, httpVars, apiVars, moreVars >>
saveVars  == << mobilized, generation, minSaveInterval, saving, dirty,
                nextSaveTime, nextSaveToken, scheduled, dispatched, tokens >>

\* No callback: what lastScheduled holds before the first ScheduleSave.
NoCallback == [token |-> 0, due |-> -1, gen |-> 0]

\* The threads that call into the Store.
Threads == { "t1", "t2" }

\* The Store as constructed, no thread inside it.
SubIdle ==
    /\ alive = TRUE
    /\ mutex = "none"
    /\ stack = [t \in Threads |-> << >>]
    /\ subscribers = {}
    /\ nextSubscriptionToken = 1
    /\ closures = {}
    /\ subLog = << >>
    /\ lastCall = 0

\* A session as constructed.
WsIdle ==
    /\ session = "none"
    /\ authenticated = FALSE
    /\ authenticationTimeout = 0
    /\ identifiers = {}
    /\ roles = {}
    /\ httpClientTransactions = {}
    /\ nextHttpClientTransactionId = 1
    /\ inFlight = {}
    /\ callbacks = << >>
    /\ authTimer = [state |-> "none", due |-> 0]
    /\ closing = {}
    /\ frames = << >>
    /\ closeCodes = << >>
    /\ openTime = 0
    /\ received = 0
    /\ lastMessage = [t |-> "invalid"]
    /\ lastResponse = [statusCode |-> 0, body |-> [t |-> "invalid"]]

\* No call of UpdateRoles yet: RolesPermitted as default-constructed.
RolesIdle ==
    /\ inherited = [readData |-> {}, readMeta |-> {}, writeData |-> {},
                    writeMeta |-> {}, createData |-> {}, deleteData |-> {}]
    /\ nodeMeta = [t |-> "invalid"]
    /\ required = inherited
    /\ innerRolesPermitted = inherited

\* The bound on the WebSockets a run registers.
MaxSockets == 2

WebSockets == 1..MaxSockets

\* ApiWs::Impl as constructed.
ListenerIdle ==
    /\ clients = [w \in WebSockets |-> "absent"]
    /\ listenerMobilized = FALSE
    /\ listenerGeneration = 0
    /\ sockets = 0
    /\ createdIn = [w \in WebSockets |-> 0]
    /\ lingers = {}
    /\ pending = {}
    /\ delivered = 0
    /\ wsCloses = [w \in WebSockets |-> 0]
    /\ onClosedCalls = [w \in WebSockets |-> 0]
    /\ closedAt = [w \in WebSockets |-> -1]
    /\ texts = [w \in WebSockets |-> 0]
    /\ nullDeref = FALSE
    /\ crashed = FALSE
    /\ lastRan = [kind |-> "none", ws |-> 0, gen |-> 0]

\* The mutexes of the listener, of a session and of the Store, and the threads
\* that take them.
Locks == { "listener", "session", "store" }
LockThreads == { "timer", "completion", "text", "close", "main" }

\* No thread inside a call, no session registered.
LocksIdle ==
    /\ lockOwner = [k \in Locks |-> "none"]
    /\ lockDepth = [k \in Locks |-> 0]
    /\ program = [t \in LockThreads |-> << >>]
    /\ started = [t \in LockThreads |-> 0]
    /\ sessionSlot = "absent"
    /\ listening = FALSE
    /\ processEnded = FALSE

\* Service::Impl as constructed, Run not called.
ServiceIdle ==
    /\ runPc = "idle"
    /\ daemon = FALSE
    /\ shutDown = FALSE
    /\ stopServiceSet = FALSE
    /\ stopService = 0
    /\ stops = 0
    /\ interrupts = 0
    /\ shutDownOrder = << >>
    /\ exitCode = -1

\* No request served yet.
HttpIdle ==
    /\ httpRequest = [resource |-> "none", method |-> "", path |-> << >>]
    /\ httpResponse = [statusCode |-> 0, reasonPhrase |-> "", body |-> << >>, headers |-> {}]
    /\ handled = "none"

-----------------------------------------------------------------------------
(* Json::Value.  A value is a record tagged by its type; Json::Value() is   *)
(* the Invalid value, which the projection uses for "redacted".            *)

Invalid == [t |-> "invalid"]
Null    == [t |-> "null"]
Num(n)  == [t |-> "num", v |-> n]
Str(s)  == [t |-> "str", v |-> s]
Arr(s)  == [t |-> "arr", v |-> s]
Obj(f)  == [t |-> "obj", v |-> f]

EmptyObj == Obj([k \in {} |-> Null])

\* Json::Value::Has(key): only an object has keys.
Has(val, key) == val.t = "obj" /\ key \in DOMAIN val.v

\* Json::Value::operator[](key) const: the member, or null when there is none.
Index(val, key) == IF Has(val, key) THEN val.v[key] ELSE Null

\* The conversion of a Json::Value to std::string: "" unless it is a string.
RoleOf(val) == IF val.t = "str" THEN val.v ELSE ""

-----------------------------------------------------------------------------
(* RolesPermitted and its maintenance.                                     *)

NoRolesPermitted ==
    [readData |-> {}, readMeta |-> {}, writeData |-> {}, writeMeta |-> {},
     createData |-> {}, deleteData |-> {}]

AddRoles(rolesSet, rolesArray) ==
    IF rolesArray.t # "arr" THEN rolesSet
    ELSE rolesSet \cup { RoleOf(rolesArray.v[i]) : i \in DOMAIN rolesArray.v }

\* A mutant of RolePermitted: no bypass for an empty rolesHeld.
RolePermittedNoBypass(rolesPermitted, held) ==
    (rolesPermitted \cap held) # {}

\* A mutant of RolePermitted: everything is permitted to everyone.
RolePermittedAlways(rolesPermitted, held) == TRUE

\* A mutant of RolePermitted: every held role must be permitted.
RolePermittedAll(rolesPermitted, held) ==
    held \subseteq rolesPermitted

RolePermitted(rolesPermitted, held) ==
    \/ held = {}
    \/ \E role \in rolesPermitted : role \in held

\* The require step of UpdateRoles: a present key clears the set and refills it.
Require(rp, require) ==
    [readData   |-> IF Has(require, "read_data")
                    THEN AddRoles({}, Index(require, "read_data")) ELSE rp.readData,
     readMeta   |-> IF Has(require, "read_meta")
                    THEN AddRoles({}, Index(require, "read_meta")) ELSE rp.readMeta,
     writeData  |-> IF Has(require, "write_data")
                    THEN AddRoles({}, Index(require, "write_data")) ELSE rp.writeData,
     writeMeta  |-> IF Has(require, "write_meta")
                    THEN AddRoles({}, Index(require, "write_meta")) ELSE rp.writeMeta,
     createData |-> IF Has(require, "create_data")
                    THEN AddRoles({}, Index(require, "create")) ELSE rp.createData,
     deleteData |-> IF Has(require, "delete_data")
                    THEN AddRoles({}, Index(require, "delete")) ELSE rp.deleteData]

\* The allow step of UpdateRoles: a present key adds roles; write adds to read too.
Allow(rp, allow) ==
    LET rd1 == IF Has(allow, "read_data")
               THEN AddRoles(rp.readData, Index(allow, "read_data")) ELSE rp.readData
        rm1 == IF Has(allow, "read_meta")
               THEN AddRoles(rp.readMeta, Index(allow, "read_meta")) ELSE rp.readMeta
    IN
    [readData   |-> IF Has(allow, "write_data")
                    THEN AddRoles(rd1, Index(allow, "write_data")) ELSE rd1,
     readMeta   |-> IF Has(allow, "write_meta")
                    THEN AddRoles(rm1, Index(allow, "write_meta")) ELSE rm1,
     writeData  |-> IF Has(allow, "write_data")
                    THEN AddRoles(rp.writeData, Index(allow, "write_data")) ELSE rp.writeData,
     writeMeta  |-> IF Has(allow, "write_meta")
                    THEN AddRoles(rp.writeMeta, Index(allow, "write_meta")) ELSE rp.writeMeta,
     createData |-> IF Has(allow, "create_data")
                    THEN AddRoles(rp.createData, Index(allow, "create")) ELSE rp.createData,
     deleteData |-> IF Has(allow, "delete_data")
                    THEN AddRoles(rp.deleteData, Index(allow, "delete")) ELSE rp.deleteData]

\* A mutant of UpdateRoles: the allow step comes before the require step.
UpdateRolesAllowFirst(rp, meta) ==
    LET afterAllow == IF Has(meta, "allow")
                      THEN Allow(rp, Index(meta, "allow")) ELSE rp
    IN IF Has(meta, "require") THEN Require(afterAllow, Index(meta, "require"))
       ELSE afterAllow

UpdateRoles(rp, meta) ==
    LET afterRequire == IF Has(meta, "require")
                        THEN Require(rp, Index(meta, "require")) ELSE rp
    IN IF Has(meta, "allow") THEN Allow(afterRequire, Index(meta, "allow"))
       ELSE afterRequire

-----------------------------------------------------------------------------
(* The projection.                                                         *)

RECURSIVE DescendTree(_, _, _, _)

\* A mutant of DescendTree: it does not step through the "data" of a policy node.
DescendTreeFlat(rp, root, p, offset) ==
    IF offset > Len(p) THEN [rp |-> rp, node |-> root]
    ELSE DescendTree(rp, Index(root, p[offset]), p, offset + 1)

\* Returns the node reached and the RolesPermitted accumulated on the way.
DescendTree(rp, root, p, offset) ==
    IF offset > Len(p) THEN [rp |-> rp, node |-> root]
    ELSE IF Has(root, "data")
         THEN DescendTree(UpdateRoles(rp, Index(root, "meta")),
                          Index(Index(root, "data"), p[offset]), p, offset + 1)
         ELSE DescendTree(rp, Index(root, p[offset]), p, offset + 1)

RECURSIVE ExtractData(_, _, _)
RECURSIVE ExtractDataNoMeta(_, _, _)

\* A mutant of ExtractDataNoMeta: an object is emitted only where read_data is
\* permitted.
ExtractDataNoMetaStrict(rp, root, held) ==
    CASE root.t = "arr" ->
           IF RolePermitted(rp.readData, held)
           THEN LET elements == [i \in DOMAIN root.v |-> ExtractData(rp, root.v[i], held)]
                IN Arr(SelectSeq(elements, LAMBDA e : e.t # "invalid"))
           ELSE Invalid
      [] root.t = "obj" ->
           LET elements == [k \in DOMAIN root.v |-> ExtractData(rp, root.v[k], held)]
               kept     == { k \in DOMAIN root.v : elements[k].t # "invalid" }
           IN IF RolePermitted(rp.readData, held)
              THEN Obj([k \in kept |-> elements[k]]) ELSE Invalid
      [] OTHER ->
           IF RolePermitted(rp.readData, held) THEN root ELSE Invalid

\* A mutant of ExtractDataNoMeta: the members of an object share one
\* RolesPermitted, so that the meta of a member that is a policy node reaches
\* the other members.
ExtractDataNoMetaShared(rp, root, held) ==
    CASE root.t = "arr" ->
           IF RolePermitted(rp.readData, held)
           THEN LET elements == [i \in DOMAIN root.v |-> ExtractData(rp, root.v[i], held)]
                IN Arr(SelectSeq(elements, LAMBDA e : e.t # "invalid"))
           ELSE Invalid
      [] root.t = "obj" ->
           LET others(k) == { j \in DOMAIN root.v \ {k} : Has(root.v[j], "data") }
               shared(k) == IF others(k) = {} THEN rp
                            ELSE UpdateRoles(rp, Index(root.v[CHOOSE j \in others(k) : TRUE],
                                                       "meta"))
               elements == [k \in DOMAIN root.v |-> ExtractData(shared(k), root.v[k], held)]
               kept     == { k \in DOMAIN root.v : elements[k].t # "invalid" }
               data     == Obj([k \in kept |-> elements[k]])
           IN IF RolePermitted(rp.readData, held) \/ kept # {}
              THEN data ELSE Invalid
      [] OTHER ->
           IF RolePermitted(rp.readData, held) THEN root ELSE Invalid

ExtractDataNoMeta(rp, root, held) ==
    CASE root.t = "arr" ->
           IF RolePermitted(rp.readData, held)
           THEN LET elements == [i \in DOMAIN root.v |-> ExtractData(rp, root.v[i], held)]
                IN Arr(SelectSeq(elements, LAMBDA e : e.t # "invalid"))
           ELSE Invalid
      [] root.t = "obj" ->
           LET elements == [k \in DOMAIN root.v |-> ExtractData(rp, root.v[k], held)]
               kept     == { k \in DOMAIN root.v : elements[k].t # "invalid" }
               data     == Obj([k \in kept |-> elements[k]])
           IN IF RolePermitted(rp.readData, held) \/ kept # {}
              THEN data ELSE Invalid
      [] OTHER ->
           IF RolePermitted(rp.readData, held) THEN root ELSE Invalid

\* A mutant of ExtractData: a policy node is always replaced by its data, as in
\* the revision of the projection that knew no roles.
ExtractDataBare(rp, root, held) ==
    IF root.t = "obj" /\ Has(root, "data")
    THEN ExtractDataNoMeta(UpdateRoles(rp, Index(root, "meta")), Index(root, "data"), held)
    ELSE ExtractDataNoMeta(rp, root, held)

ExtractData(rp, root, held) ==
    IF root.t = "obj" /\ Has(root, "data")
    THEN LET inner == UpdateRoles(rp, Index(root, "meta"))
         IN IF RolePermitted(inner.readMeta, held)
            THEN Obj( ("data" :> ExtractDataNoMeta(inner, Index(root, "data"), held))
                   @@ ("meta" :> ExtractDataNoMeta(inner, Index(root, "meta"), held)) )
            ELSE ExtractDataNoMeta(inner, Index(root, "data"), held)
    ELSE ExtractDataNoMeta(rp, root, held)

\* Store::Impl::GetData: a redacted result is returned as null.
GetData(doc, p, held) ==
    LET d    == DescendTree(NoRolesPermitted, doc, p, 1)
        data == ExtractData(d.rp, d.node, held)
    IN IF data.t = "invalid" THEN Null ELSE data

-----------------------------------------------------------------------------
(* Documents the store can be loaded with.                                 *)

defaultMinSaveInterval == 60

Policy(m, d) == Obj(("data" :> d) @@ ("meta" :> m))
RoleArray(s) == Arr([i \in DOMAIN s |-> Str(s[i])])
MetaRequire(f) == Obj("require" :> Obj(f))
MetaAllow(f)   == Obj("allow" :> Obj(f))

MetaAdmin == MetaRequire("read_data" :> RoleArray(<<"admin">>))
MetaXY    == MetaRequire(("read_data" :> RoleArray(<<"x">>))
                      @@ ("read_meta" :> RoleArray(<<"y">>)))

\* Scenario 1 and 2 of the specification.
DocSecret ==
    Obj("data" :> Obj(("Public" :> Str("hello"))
                   @@ ("Secret" :> Policy(MetaAdmin, Num(42)))))

\* Scenario 3 of the specification.
DocThing == Obj("Thing" :> Policy(MetaXY, Num(1)))

Metas ==
    { MetaXY,
      MetaRequire("read_data" :> RoleArray(<<"x">>)),
      MetaRequire("read_data" :> RoleArray(<< >>)),
      MetaAllow("read_data" :> RoleArray(<<"y">>)),
      MetaAllow(("write_data" :> RoleArray(<<"x">>))
             @@ ("write_meta" :> RoleArray(<<"y">>))),
      Obj(("require" :> Obj("read_meta" :> RoleArray(<<"x">>)))
       @@ ("allow" :> Obj("read_data" :> RoleArray(<<"x", "y">>)))) }

Scalars == { Num(1), Str("hello") }

\* Scalars and policy nodes over scalars.
Values1 == Scalars \cup { Policy(m, Num(1)) : m \in Metas }

\* Arrays and objects of those.
Values2 ==
    Values1
    \cup { Arr(<<u, w>>) : u \in Values1, w \in Values1 }
    \cup { Obj("a" :> u) : u \in Values1 }
    \cup { Obj(("a" :> u) @@ ("b" :> w)) : u \in Values1, w \in Values1 }

\* Objects whose "data" key does not come with exactly a "meta" sibling.
Misshapen ==
    { Obj("data" :> Num(1)),
      Obj(("data" :> Num(1)) @@ ("a" :> Str("hello"))),
      Obj(("data" :> Num(1)) @@ ("meta" :> MetaXY) @@ ("a" :> Str("hello"))),
      Obj("a" :> Obj(("data" :> Num(1)) @@ ("b" :> Str("hello")))) }

\* Objects that hold an object next to a value, bare and as the data of a
\* policy node.
Nested ==
    LET inner == { Num(1), Policy(MetaAllow("read_data" :> RoleArray(<<"y">>)), Num(1)),
                   Policy(MetaXY, Num(1)),
                   Policy(MetaRequire("read_data" :> RoleArray(<< >>)), Num(1)) }
        outer == { Obj(("a" :> Obj("b" :> u)) @@ ("b" :> w)) : u \in inner, w \in inner }
    IN outer \cup { Policy(m, d) : m \in Metas, d \in outer }

\* Objects that hold, under a key, a policy node whose data is an object of
\* values and policy nodes.
Deep ==
    LET inner == { Num(1), Policy(MetaAdmin, Num(42)),
                   Policy(MetaAllow("read_data" :> RoleArray(<<"y">>)), Num(1)) }
    IN { Obj("a" :> Policy(m, Obj(("a" :> u) @@ ("b" :> w)))) :
             m \in { MetaXY, MetaRequire("read_data" :> RoleArray(<<"x">>)) },
             u \in inner, w \in inner }

Docs ==
    Values2
    \cup { Policy(m, d) : m \in Metas, d \in Values2 \ Scalars }
    \cup Misshapen
    \cup Nested
    \cup Deep
    \cup { DocSecret, DocThing, EmptyObj }

Paths == { << >>, <<"a">>, <<"Secret">>, <<"Thing">> }

RoleSets == (SUBSET {"x", "y"}) \cup { {"public"}, {"admin"} }

-----------------------------------------------------------------------------
(* SpecGet: a mobilized store holding some document answers GetData calls. *)

InitGet ==
    /\ store \in Docs
    /\ mobilized = TRUE
    /\ generation = 1
    /\ minSaveInterval = defaultMinSaveInterval
    /\ saving = FALSE
    /\ dirty = FALSE
    /\ nextSaveTime = 0
    /\ nextSaveToken = 0
    /\ scheduled = {}
    /\ dispatched = {}
    /\ tokens = 0
    /\ now = 0
    /\ caller = "none"
    /\ path = << >>
    /\ rolesHeld = {}
    /\ result = Invalid
    /\ unsaved = FALSE
    /\ lastMutation = 0
    /\ winFirst = -1
    /\ winCount = 0
    /\ winSaves = 0
    /\ lastScheduled = NoCallback
    /\ orphaned = {}
    /\ SubIdle
    /\ WsIdle
    /\ RolesIdle
    /\ HttpIdle
    /\ ListenerIdle
    /\ LocksIdle
    /\ ServiceIdle
    /\ lastOp = "none"

\* Store::GetData(path, rolesHeld), called by code that chooses its roles.
StoreGetData(p, held) ==
    /\ caller' = "api"
    /\ path' = p
    /\ rolesHeld' = held
    /\ result' = GetData(store, p, held)
    /\ lastOp' = "GetData"
    /\ UNCHANGED << store, storeVars, histVars, subVars, wsVars, extVars >>

\* A mutant of Test: the handler passes no roles.
TestNoRoles(p) ==
    /\ caller' = "http"
    /\ path' = p
    /\ rolesHeld' = {}
    /\ result' = GetData(store, p, {})
    /\ lastOp' = "GetData"
    /\ UNCHANGED << store, storeVars, histVars, subVars, wsVars, extVars >>

\* The handler of GET /data/<path>: the request's path, the role "public".
Test(p) ==
    /\ caller' = "http"
    /\ path' = p
    /\ rolesHeld' = {"public"}
    /\ result' = GetData(store, p, {"public"})
    /\ lastOp' = "GetData"
    /\ UNCHANGED << store, storeVars, histVars, subVars, wsVars, extVars >>

NextGet ==
    \/ \E p \in Paths, held \in RoleSets : StoreGetData(p, held)
    \/ \E p \in Paths : Test(p)

SpecGet == InitGet /\ [][NextGet]_vars

-----------------------------------------------------------------------------
(* Spec: the lifecycle of the store and its coalescing save scheduler.     *)
(* Time is discrete.  The scheduler thread takes a callback when its time  *)
(* has come (Dispatch) and the callback then runs under the store's mutex  *)
(* (RunCallback); the clock does not advance past a callback that is due.  *)

MaxTime == 9
MaxGeneration == 2
MaxMutations == 4
ShortInterval == 3

\* The store files Mobilize may be given.
DocDefaults == Obj("Roles" :> EmptyObj)
DocShortInterval ==
    Obj("Configuration" :> Obj("MinSaveInterval" :> Num(ShortInterval)))
Files == { "missing", "garbage", "defaults", "short" }
FileContent(file) == IF file = "short" THEN DocShortInterval ELSE DocDefaults

\* The fields ScheduleSave and Save work on.
Impl ==
    [saving |-> saving, dirty |-> dirty, nextSaveTime |-> nextSaveTime,
     nextSaveToken |-> nextSaveToken, scheduled |-> scheduled, tokens |-> tokens]

SetImpl(s) ==
    /\ saving' = s.saving
    /\ dirty' = s.dirty
    /\ nextSaveTime' = s.nextSaveTime
    /\ nextSaveToken' = s.nextSaveToken
    /\ scheduled' = s.scheduled
    /\ tokens' = s.tokens

\* A mutant of ScheduleSave: it does not look at saving.
ScheduleSaveUnguarded(s) ==
    LET next  == IF s.nextSaveTime < now THEN now ELSE s.nextSaveTime
        token == s.tokens + 1
    IN [saving        |-> TRUE,
        dirty         |-> FALSE,
        nextSaveTime  |-> next + minSaveInterval,
        nextSaveToken |-> token,
        scheduled     |-> s.scheduled \cup
                              { [token |-> token, due |-> next, gen |-> generation] },
        tokens        |-> token]

\* A mutant of ScheduleSave: it does not advance nextSaveTime.
ScheduleSaveNoSpacing(s) ==
    IF s.saving THEN [s EXCEPT !.dirty = TRUE]
    ELSE LET next  == IF s.nextSaveTime < now THEN now ELSE s.nextSaveTime
             token == s.tokens + 1
         IN [saving        |-> TRUE,
             dirty         |-> FALSE,
             nextSaveTime  |-> next,
             nextSaveToken |-> token,
             scheduled     |-> s.scheduled \cup
                                   { [token |-> token, due |-> next, gen |-> generation] },
             tokens        |-> token]

\* Store::Impl::ScheduleSave.  The callback it schedules is the record of its
\* token, its time and the generation it captured.
ScheduleSave(s) ==
    IF s.saving THEN [s EXCEPT !.dirty = TRUE]
    ELSE LET next  == IF s.nextSaveTime < now THEN now ELSE s.nextSaveTime
             token == s.tokens + 1
         IN [saving        |-> TRUE,
             dirty         |-> FALSE,
             nextSaveTime  |-> next + minSaveInterval,
             nextSaveToken |-> token,
             scheduled     |-> s.scheduled \cup
                                   { [token |-> token, due |-> next, gen |-> generation] },
             tokens        |-> token]

\* Store::Impl::Save.
Save(s) ==
    LET cleared == [s EXCEPT !.saving = FALSE]
    IN IF cleared.dirty THEN ScheduleSave(cleared) ELSE cleared

\* The callback a call of ScheduleSave or Save has scheduled, or the one
\* before when it has scheduled none.
Newest(s) ==
    IF s.tokens = tokens THEN lastScheduled
    ELSE CHOOSE cb \in s.scheduled : cb.token = s.tokens

Init ==
    /\ store = Invalid
    /\ mobilized = FALSE
    /\ generation = 0
    /\ minSaveInterval = 0
    /\ saving = FALSE
    /\ dirty = FALSE
    /\ nextSaveTime = 0
    /\ nextSaveToken = 0
    /\ scheduled = {}
    /\ dispatched = {}
    /\ tokens = 0
    /\ now = 0
    /\ caller = "none"
    /\ path = << >>
    /\ rolesHeld = {}
    /\ result = Invalid
    /\ unsaved = FALSE
    /\ lastMutation = 0
    /\ winFirst = -1
    /\ winCount = 0
    /\ winSaves = 0
    /\ lastScheduled = NoCallback
    /\ orphaned = {}
    /\ SubIdle
    /\ WsIdle
    /\ RolesIdle
    /\ HttpIdle
    /\ ListenerIdle
    /\ LocksIdle
    /\ ServiceIdle
    /\ lastOp = "none"

\* A mutant of Mobilize: it does not look at mobilized.
MobilizeAgain(file) ==
    /\ lastOp' = "Mobilize"
    /\ IF file = "missing"
       THEN UNCHANGED << store, minSaveInterval, mobilized, generation >>
       ELSE IF file = "garbage"
       THEN /\ store' = Invalid
            /\ UNCHANGED << minSaveInterval, mobilized, generation >>
       ELSE /\ generation < MaxGeneration
            /\ store' = FileContent(file)
            /\ LET configuration == GetData(FileContent(file), <<"Configuration">>, {})
               IN minSaveInterval' =
                      IF Has(configuration, "MinSaveInterval")
                      THEN Index(configuration, "MinSaveInterval").v
                      ELSE defaultMinSaveInterval
            /\ mobilized' = TRUE
            /\ generation' = generation + 1
    /\ UNCHANGED << saving, dirty, nextSaveTime, nextSaveToken, scheduled,
                    dispatched, tokens, now, queryVars, histVars, subVars, wsVars, extVars >>

\* Store::Mobilize.  An already mobilized store is left alone; a file that cannot
\* be loaded changes nothing; a file that does not parse leaves its Invalid
\* value in store; otherwise the document is kept and the store mobilized.
Mobilize(file) ==
    /\ lastOp' = "Mobilize"
    /\ IF mobilized \/ file = "missing"
       THEN UNCHANGED << store, minSaveInterval, mobilized, generation >>
       ELSE IF file = "garbage"
       THEN /\ store' = Invalid
            /\ UNCHANGED << minSaveInterval, mobilized, generation >>
       ELSE /\ generation < MaxGeneration
            /\ store' = FileContent(file)
            /\ LET configuration == GetData(FileContent(file), <<"Configuration">>, {})
               IN minSaveInterval' =
                      IF Has(configuration, "MinSaveInterval")
                      THEN Index(configuration, "MinSaveInterval").v
                      ELSE defaultMinSaveInterval
            /\ mobilized' = TRUE
            /\ generation' = generation + 1
    /\ UNCHANGED << saving, dirty, nextSaveTime, nextSaveToken, scheduled,
                    dispatched, tokens, now, queryVars, histVars, subVars, wsVars, extVars >>

\* Store::Demobilize.  Cancel removes the callback only while the scheduler
\* still holds it.
Demobilize ==
    /\ lastOp' = "Demobilize"
    /\ IF ~mobilized
       THEN UNCHANGED << saving, dirty, scheduled, mobilized, histVars >>
       ELSE /\ scheduled' = IF saving
                            THEN { cb \in scheduled : cb.token # nextSaveToken }
                            ELSE scheduled
            /\ saving' = FALSE
            /\ dirty' = FALSE
            /\ mobilized' = FALSE
            /\ unsaved' = FALSE
            /\ winFirst' = -1
            /\ winCount' = 0
            /\ winSaves' = 0
            /\ orphaned' = orphaned \cup scheduled' \cup dispatched
            /\ UNCHANGED << lastMutation, lastScheduled >>
    /\ UNCHANGED << store, generation, minSaveInterval, nextSaveTime, nextSaveToken,
                    dispatched, tokens, now, queryVars, subVars, wsVars, extVars >>

\* A mutation of the document: under the mutex of a mobilized store it arms the
\* saver.  The observed window begins with a mutation of a store whose save is
\* not armed.
Mutate ==
    /\ mobilized
    /\ lastOp' = "Mutate"
    /\ SetImpl(ScheduleSave(Impl))
    /\ lastScheduled' = Newest(ScheduleSave(Impl))
    /\ unsaved' = TRUE
    /\ lastMutation' = now
    /\ UNCHANGED orphaned
    /\ \/ /\ winFirst # -1
          /\ winCount < MaxMutations
          /\ winCount' = winCount + 1
          /\ UNCHANGED << winFirst, winSaves >>
       \/ /\ ~saving
          /\ winFirst' = now
          /\ winCount' = 1
          /\ winSaves' = 0
    /\ UNCHANGED << store, mobilized, generation, minSaveInterval, dispatched,
                    now, queryVars, subVars, wsVars, extVars >>

\* A mutant of GivesUp: the callback does not compare generations.
GivesUpUnmobilizedOnly(cb) == ~mobilized

\* The test the scheduled callback of ScheduleSave makes under the mutex.
GivesUp(cb) == ~mobilized \/ generation # cb.gen

\* The scheduler thread takes a callback whose time has come.
Dispatch(cb) ==
    /\ mobilized
    /\ cb \in scheduled
    /\ cb.due <= now
    /\ lastOp' = "Dispatch"
    /\ scheduled' = scheduled \ {cb}
    /\ dispatched' = dispatched \cup {cb}
    /\ UNCHANGED << store, mobilized, generation, minSaveInterval, saving, dirty,
                    nextSaveTime, nextSaveToken, tokens, now, queryVars, histVars,
                    subVars, wsVars, extVars >>

\* The scheduled callback of ScheduleSave runs: it takes the mutex, gives up on a
\* store that is not mobilized or is of another generation, and else runs Save.
RunCallback(cb) ==
    /\ cb \in dispatched
    /\ dispatched' = dispatched \ {cb}
    /\ orphaned' = orphaned \ {cb}
    /\ IF GivesUp(cb)
       THEN /\ lastOp' = "Stale"
            /\ UNCHANGED << saving, dirty, nextSaveTime, nextSaveToken, scheduled,
                            tokens, unsaved, lastMutation, winFirst, winCount,
                            winSaves, lastScheduled >>
       ELSE /\ lastOp' = "Save"
            /\ SetImpl(Save(Impl))
            /\ lastScheduled' = Newest(Save(Impl))
            /\ unsaved' = FALSE
            /\ winSaves' = IF winFirst # -1 THEN winSaves + 1 ELSE winSaves
            /\ UNCHANGED << lastMutation, winFirst, winCount >>
    /\ UNCHANGED << store, mobilized, generation, minSaveInterval, now, queryVars,
                    subVars, wsVars, extVars >>

\* The clock advances, unless a callback is due.
Advance ==
    /\ now < MaxTime
    /\ dispatched = {}
    /\ \A cb \in scheduled : cb.due > now
    /\ now' = now + 1
    /\ lastOp' = "Advance"
    /\ UNCHANGED << store, mobilized, generation, minSaveInterval, saving, dirty,
                    nextSaveTime, nextSaveToken, scheduled, dispatched, tokens,
                    queryVars, histVars, subVars, wsVars, extVars >>

Next ==
    \/ \E file \in Files : Mobilize(file)
    \/ Demobilize
    \/ Mutate
    \/ \E cb \in scheduled : Dispatch(cb)
    \/ \E cb \in dispatched : RunCallback(cb)
    \/ Advance

Spec == Init /\ [][Next]_vars

-----------------------------------------------------------------------------------------------------------------------------------------------------
(* SpecSub: threads calling SubscribeToData, GetData, the cancel closures,  *)
(* Mobilize and Demobilize on one Store.  A call is a frame on its thread's *)
(* stack; the frame of SubscribeToData runs the caller's onUpdate, which   *)
(* may call into the Store again.  The calls of SubscribeToData are        *)
(* numbered in the order of their registration.                            *)

MaxSubscriptions == 2
MaxDepth == 2

\* The thread that subscribes; the other threads call GetData and the cancel
\* closures meanwhile.
Subscriber == "t1"

\* The store files Mobilize is given here.
SubFiles == { "garbage", "defaults" }

\* The (path, rolesHeld) arguments of the calls: the whole document, read with
\* no roles.
NoArg == [path |-> << >>, roles |-> {}]
SubArgs == { NoArg }

Frame(op, arg, token, call) ==
    [op |-> op, pc |-> "lock", arg |-> arg, token |-> token, data |-> Invalid,
     call |-> call]

Top(t) == stack[t][Len(stack[t])]
Inside(t, op, pc) ==
    stack[t] # << >> /\ Top(t).op = op /\ Top(t).pc = pc
SetTop(t, frame) ==
    stack' = [stack EXCEPT ![t] = [@ EXCEPT ![Len(@)] = frame]]
Pop(t) ==
    stack' = [stack EXCEPT ![t] = SubSeq(@, 1, Len(@) - 1)]

\* The thread is blocked in the lock of Impl::mutex.
Waiting(t) == stack[t] # << >> /\ Top(t).pc \in { "lock", "relock" }

InitSub ==
    /\ Init

\* A thread calls Store::GetData or Store::SubscribeToData, from outside or from
\* the onUpdate it is running.
Call(t, op, arg) ==
    /\ alive
    /\ op \in { "GetData", "SubscribeToData" }
    /\ \/ stack[t] = << >>
       \/ /\ Inside(t, "SubscribeToData", "callback")
          /\ Len(stack[t]) < MaxDepth
    /\ op = "SubscribeToData"
          => /\ t = Subscriber
             /\ nextSubscriptionToken <= MaxSubscriptions
    /\ stack' = [stack EXCEPT ![t] = Append(@, Frame(op, arg, 0, 0))]
    /\ lastOp' = "Call"
    /\ lastCall' = 0
    /\ UNCHANGED << store, storeVars, queryVars, histVars, wsVars, extVars, alive, mutex,
                    subscribers, nextSubscriptionToken, closures, subLog >>

\* What the log says of a call's closure after one more call of it.
Again(cancels) == IF cancels = "never" THEN "once" ELSE "again"

\* A thread calls a cancel closure it was given.  The closure returns at once
\* when the Impl is gone.
CallCancel(t, closure) ==
    /\ closure \in closures
    /\ stack[t] = << >>
    /\ lastCall' = closure.call
    /\ IF alive
       THEN /\ stack' = [stack EXCEPT ![t] =
                            Append(@, Frame("Cancel", NoArg, closure.token, closure.call))]
            /\ lastOp' = "Call"
            /\ UNCHANGED subLog
       ELSE /\ lastOp' = "Cancel"
            /\ subLog' = [subLog EXCEPT ![closure.call].cancels = Again(@)]
            /\ UNCHANGED stack
    /\ UNCHANGED << store, storeVars, queryVars, histVars, wsVars, extVars, alive, mutex,
                    subscribers, nextSubscriptionToken, closures >>

\* std::mutex::lock returns.
Acquire(t) ==
    /\ Waiting(t)
    /\ mutex = "none"
    /\ mutex' = t
    /\ SetTop(t, [Top(t) EXCEPT !.pc =
                     IF Top(t).pc = "relock" THEN "return"
                     ELSE CASE Top(t).op = "GetData" -> "read"
                            [] Top(t).op = "SubscribeToData" -> "register"
                            [] Top(t).op = "Cancel" -> "erase"])
    /\ lastOp' = "Acquire"
    /\ lastCall' = 0
    /\ UNCHANGED << store, storeVars, queryVars, histVars, wsVars, extVars, alive,
                    subscribers, nextSubscriptionToken, closures, subLog >>

\* Store::GetData under the mutex; the value it returns is its caller's.
Read(t) ==
    /\ Inside(t, "GetData", "read")
    /\ mutex' = "none"
    /\ Pop(t)
    /\ lastOp' = "GetData"
    /\ lastCall' = 0
    /\ UNCHANGED << store, storeVars, queryVars, histVars, wsVars, extVars, alive,
                    subscribers, nextSubscriptionToken, closures, subLog >>

\* A mutant of TokenFor: the token is the number of subscriptions held.
TokenForCount(next) == Cardinality(subscribers) + 1

\* The token Impl::SubscribeToData gives the subscription.
TokenFor(next) == next

\* A mutant of UnlockedFor: the mutex is kept during onUpdate.
UnlockedForNever(t) == t

\* The holder of the mutex after lock.unlock().
UnlockedFor(t) == "none"

\* Impl::SubscribeToData up to lock.unlock(): the subscription is registered and
\* the value computed under the mutex.  subscribers[token] = ... replaces an
\* entry that has the token.
Register(t) ==
    /\ Inside(t, "SubscribeToData", "register")
    /\ LET token == TokenFor(nextSubscriptionToken)
           call  == Len(subLog) + 1
           data  == GetData(store, Top(t).arg.path, Top(t).arg.roles)
       IN /\ nextSubscriptionToken' = nextSubscriptionToken + 1
          /\ subscribers' = { sub \in subscribers : sub.token # token }
                                \cup { [token |-> token, arg |-> Top(t).arg,
                                        call |-> call] }
          /\ SetTop(t, [Top(t) EXCEPT !.pc = "invoke", !.token = token,
                                      !.data = data, !.call = call])
          /\ subLog' = Append(subLog, [token |-> token, arg |-> Top(t).arg,
                                       doc |-> store, values |-> << >>,
                                       locked |-> FALSE, returned |-> FALSE,
                                       cancels |-> "never"])
          /\ lastCall' = call
    /\ mutex' = UnlockedFor(t)
    /\ lastOp' = "Register"
    /\ UNCHANGED << store, storeVars, queryVars, histVars, wsVars, extVars, alive, closures >>

\* onUpdate(std::move(data)) is entered.
Invoke(t) ==
    /\ Inside(t, "SubscribeToData", "invoke")
    /\ SetTop(t, [Top(t) EXCEPT !.pc = "callback"])
    /\ subLog' = [subLog EXCEPT ![Top(t).call] =
                     [@ EXCEPT !.values = Append(@, Top(t).data),
                               !.locked = (mutex = t)]]
    /\ lastOp' = "Invoke"
    /\ lastCall' = Top(t).call
    /\ UNCHANGED << store, storeVars, queryVars, histVars, wsVars, extVars, alive, mutex,
                    subscribers, nextSubscriptionToken, closures >>

\* onUpdate returns and Impl::SubscribeToData goes on to lock.lock().
Resume(t) ==
    /\ Inside(t, "SubscribeToData", "callback")
    /\ SetTop(t, [Top(t) EXCEPT !.pc = "relock"])
    /\ lastOp' = "Resume"
    /\ lastCall' = Top(t).call
    /\ UNCHANGED << store, storeVars, queryVars, histVars, wsVars, extVars, alive, mutex,
                    subscribers, nextSubscriptionToken, closures, subLog >>

\* SubscribeToData returns the cancel closure and its caller's lock is released.
Return(t) ==
    /\ Inside(t, "SubscribeToData", "return")
    /\ closures' = closures \cup { [call |-> Top(t).call, token |-> Top(t).token] }
    /\ subLog' = [subLog EXCEPT ![Top(t).call].returned = TRUE]
    /\ mutex' = "none"
    /\ Pop(t)
    /\ lastOp' = "Return"
    /\ lastCall' = Top(t).call
    /\ UNCHANGED << store, storeVars, queryVars, histVars, wsVars, extVars, alive,
                    subscribers, nextSubscriptionToken >>

\* The cancel closure under the mutex.
Erase(t) ==
    /\ Inside(t, "Cancel", "erase")
    /\ subscribers' = { sub \in subscribers : sub.token # Top(t).token }
    /\ subLog' = [subLog EXCEPT ![Top(t).call].cancels = Again(@)]
    /\ mutex' = "none"
    /\ Pop(t)
    /\ lastOp' = "Cancel"
    /\ lastCall' = Top(t).call
    /\ UNCHANGED << store, storeVars, queryVars, histVars, wsVars, extVars, alive,
                    nextSubscriptionToken, closures >>

\* Store::Mobilize and Store::Demobilize hold the mutex from beginning to end.
Locked(A) ==
    /\ alive
    /\ mutex = "none"
    /\ A

\* The Store is destroyed when no thread is inside it: ~Store runs Demobilize and
\* the Impl goes with its subscribers.
Destroy ==
    /\ alive
    /\ mutex = "none"
    /\ \A t \in Threads : stack[t] = << >>
    /\ closures # {}
    /\ alive' = FALSE
    /\ subscribers' = {}
    /\ mobilized' = FALSE
    /\ saving' = FALSE
    /\ dirty' = FALSE
    /\ lastOp' = "Destroy"
    /\ lastCall' = 0
    /\ UNCHANGED << store, generation, minSaveInterval, nextSaveTime, nextSaveToken,
                    scheduled, dispatched, tokens, now, queryVars, histVars, wsVars, extVars,
                    mutex, stack, nextSubscriptionToken, closures, subLog >>

NextSub ==
    \/ \E t \in Threads, op \in { "GetData", "SubscribeToData" }, arg \in SubArgs :
           Call(t, op, arg)
    \/ \E t \in Threads, closure \in closures : CallCancel(t, closure)
    \/ \E t \in Threads : Acquire(t)
    \/ \E t \in Threads : Read(t)
    \/ \E t \in Threads : Register(t)
    \/ \E t \in Threads : Invoke(t)
    \/ \E t \in Threads : Resume(t)
    \/ \E t \in Threads : Return(t)
    \/ \E t \in Threads : Erase(t)
    \/ \E file \in SubFiles : Locked(Mobilize(file))
    \/ Locked(Demobilize)
    \/ Destroy

SpecSub == InitSub /\ [][NextSub]_vars

-----------------------------------------------------------------------------
(* SpecWs: one WebSocket session, the Client of ApiWs.cpp, from OnOpened to *)
(* its close.  Its handlers run under Client::mutex on three threads: the   *)
(* WebSocket's ("text"), the scheduler's ("timer") and the HTTP client's    *)
(* ("http").  ReportError releases the mutex before it calls closeDelegate, *)
(* so the close is a step of its own; the thread "text" holds the           *)
(* listener's mutex from the delivery of a text to the end of its close.    *)
(* A closed session's Client is gone: the callbacks that hold a weak        *)
(* pointer to it do nothing.                                                *)

MaxMessages == 2
AuthTimeout == 3

\* Store::GetData(path) as ApiWs.cpp calls it, for a path of one key: the node
\* under the key, descending through "data", with every wrapper replaced by its
\* "data".
RECURSIVE ExtractDataString(_)
ExtractDataString(root) ==
    IF Has(root, "data") THEN ExtractDataString(root.v["data"])
    ELSE CASE root.t = "arr" ->
                Arr([i \in DOMAIN root.v |-> ExtractDataString(root.v[i])])
           [] root.t = "obj" ->
                Obj([k \in DOMAIN root.v |-> ExtractDataString(root.v[k])])
           [] OTHER -> root

DescendTreeString(root, key) ==
    IF Has(root, "data") THEN Index(Index(root, "data"), key) ELSE Index(root, key)

GetDataString(doc, key) == ExtractDataString(DescendTreeString(doc, key))

\* The conversions of a Json::Value to std::string and to double.
AsString(val) == IF val.t = "str" THEN val.v ELSE ""
AsDouble(val) == IF val.t = "num" THEN val.v ELSE 0

\* The characters of a string member of a response body, which is kept as the
\* sequence of its characters.
AsChars(val) == IF val.t = "str" THEN val.v ELSE << >>

DigitValue ==
    "0" :> 0 @@ "1" :> 1 @@ "2" :> 2 @@ "3" :> 3 @@ "4" :> 4 @@
    "5" :> 5 @@ "6" :> 6 @@ "7" :> 7 @@ "8" :> 8 @@ "9" :> 9

RECURSIVE SkipSpace(_, _)
SkipSpace(chars, i) ==
    IF i <= Len(chars) /\ chars[i] = " " THEN SkipSpace(chars, i + 1) ELSE i

RECURSIVE ScanDigits(_, _, _)
ScanDigits(chars, i, acc) ==
    IF i <= Len(chars) /\ chars[i] \in DOMAIN DigitValue
    THEN ScanDigits(chars, i + 1, acc * 10 + DigitValue[chars[i]])
    ELSE [next |-> i, value |-> acc]

\* sscanf(chars, "%jd", &twitchId): white space, a sign, digits; what follows the
\* digits is not looked at.
Sscanf(chars) ==
    LET start  == SkipSpace(chars, 1)
        signed == start <= Len(chars) /\ chars[start] \in { "+", "-" }
        first  == IF signed THEN start + 1 ELSE start
        scan   == ScanDigits(chars, first, 0)
    IN IF scan.next = first
       THEN [count |-> IF start > Len(chars) THEN -1 ELSE 0, value |-> 0]
       ELSE [count |-> 1,
             value |-> IF signed /\ chars[start] = "-" THEN 0 - scan.value
                       ELSE scan.value]

\* The documents of the Store the session reads.
WsDoc(rolesObject) ==
    Obj("Configuration" :> Obj("WebSocketAuthenticationTimeout" :> Num(AuthTimeout))
        @@ "Roles" :> rolesObject)
WsDocs ==
    { WsDoc(EmptyObj),
      WsDoc(Obj("key:abc" :> Arr(<< >>))),
      WsDoc(Obj("key:abc" :> Arr(<< Str("editor") >>))),
      WsDoc(Obj("key:abc" :> Arr(<< Str("editor"), Str("viewer") >>)
                @@ "twitch:42" :> Arr(<< Str("mod") >>))) }

\* The texts a peer sends, as Json::Value::FromEncoding gives them.
Authenticate(method, value) ==
    Obj("type" :> Str("Authenticate") @@ method :> Str(value))
Messages ==
    { Invalid,
      Arr(<< >>),
      Obj("key" :> Str("abc")),
      Obj("type" :> Str("Subscribe")),
      Obj("type" :> Str("Authenticate")),
      Authenticate("key", "abc"),
      Authenticate("key", "nope"),
      Authenticate("twitch", "token") }

\* The responses of https://id.twitch.tv/oauth2/validate, the body parsed.
Response(statusCode, body) == [statusCode |-> statusCode, body |-> body]
Responses ==
    { Response(200, Obj("user_id" :> Str(<< "4", "2" >>))),
      Response(200, Obj("user_id" :> Str(<< "7", "x" >>))),
      Response(200, Obj("user_id" :> Str(<< "x" >>))),
      Response(200, EmptyObj),
      Response(401, Obj("user_id" :> Str(<< "4", "2" >>))) }

\* The texts the session sends.
ErrorFrame(message) == Obj("type" :> Str("Error") @@ "message" :> Str(message))
AuthenticatedFrame == Obj("type" :> Str("Authenticated"))

\* Client::messageHandlers.
messageHandlers == { "Authenticate" }

\* The fields of the Client, with what it has sent and the scheduler's hold of
\* its timer.
Client ==
    [authenticated |-> authenticated,
     authenticationTimeout |-> authenticationTimeout,
     identifiers |-> identifiers,
     roles |-> roles,
     httpClientTransactions |-> httpClientTransactions,
     nextHttpClientTransactionId |-> nextHttpClientTransactionId,
     inFlight |-> inFlight,
     callbacks |-> callbacks,
     authTimer |-> authTimer,
     closing |-> closing,
     frames |-> frames]

SetClient(c) ==
    /\ authenticated' = c.authenticated
    /\ authenticationTimeout' = c.authenticationTimeout
    /\ identifiers' = c.identifiers
    /\ roles' = c.roles
    /\ httpClientTransactions' = c.httpClientTransactions
    /\ nextHttpClientTransactionId' = c.nextHttpClientTransactionId
    /\ inFlight' = c.inFlight
    /\ callbacks' = c.callbacks
    /\ authTimer' = c.authTimer
    /\ closing' = c.closing
    /\ frames' = c.frames

\* ws->SendText.
SendText(c, frame) == [c EXCEPT !.frames = Append(@, frame)]

\* Client::ReportError called on the thread th: the Error frame, and with
\* disconnect the mutex is left for the call of closeDelegate(1005, "").
ReportError(c, message, disconnect, th) ==
    LET sent == SendText(c, ErrorFrame(message))
    IN IF disconnect THEN [sent EXCEPT !.closing = @ \cup { th }] ELSE sent

\* The roles Client::AddIdentifier's loop adds: the entries of the value, as
\* strings.
EntriesAsStrings(val) ==
    IF val.t \in { "arr", "obj" }
    THEN { AsString(val.v[k]) : k \in DOMAIN val.v }
    ELSE {}

\* A mutant of AddIdentifier: it adds no role.
AddIdentifierNoRoles(c, identifier) ==
    [c EXCEPT !.identifiers = @ \cup { identifier }]

\* Client::AddIdentifier, with its calls of Client::AddRole.
AddIdentifier(c, identifier) ==
    IF identifier \in c.identifiers THEN c
    ELSE LET storeRoles == GetDataString(store, "Roles")
             added == [c EXCEPT !.identifiers = @ \cup { identifier }]
         IN IF Has(storeRoles, identifier)
            THEN [added EXCEPT !.roles = @ \cup EntriesAsStrings(Index(storeRoles, identifier))]
            ELSE added

\* Client::OnAuthenticated.  Scheduler::Cancel takes the callback back only
\* while the scheduler has not begun to run it.
OnAuthenticated(c) ==
    LET marked == [c EXCEPT !.authenticated = TRUE]
        cancelled ==
            IF marked.authenticationTimeout # 0
            THEN [marked EXCEPT
                     !.authTimer = IF @.state = "scheduled"
                                   THEN [@ EXCEPT !.state = "cancelled"] ELSE @,
                     !.authenticationTimeout = 0]
            ELSE marked
    IN SendText(cancelled, AuthenticatedFrame)

\* Client::ValidateOAuthToken and Client::PostHttpClientTransaction: the request
\* is in flight under a new id.
\* A mutant of PostHttpClientTransaction: the id is the size of the table.
PostHttpClientTransactionCounting(c) ==
    LET id == Cardinality(c.httpClientTransactions) + 1
    IN [c EXCEPT !.httpClientTransactions = @ \cup { id },
                 !.inFlight = @ \cup { id }]

\* Client::PostHttpClientTransaction: the id is taken from the counter, the
\* transaction is entered in the table and given to the Http client.
PostHttpClientTransaction(c) ==
    LET id == c.nextHttpClientTransactionId
    IN [c EXCEPT !.nextHttpClientTransactionId = @ + 1,
                 !.httpClientTransactions = @ \cup { id },
                 !.inFlight = @ \cup { id }]

ValidateOAuthToken(c) ==
    PostHttpClientTransaction(c)

\* Client::OnAuthenticate.
OnAuthenticate(c, message) ==
    LET finish(d) == IF d.identifiers # {} THEN OnAuthenticated(d) ELSE d
    IN IF c.authenticated
       THEN ReportError(c, "Already authenticated; reconnect to reauthenticate",
                        FALSE, "text")
       ELSE IF Has(message, "key")
       THEN LET identifier == "key:" \o AsString(Index(message, "key"))
            IN IF Has(GetDataString(store, "Roles"), identifier)
               THEN finish(AddIdentifier(c, identifier))
               ELSE ReportError(c, "Invalid access key", TRUE, "text")
       ELSE IF Has(message, "twitch")
       THEN finish(ValidateOAuthToken(c))
       ELSE ReportError(c, "Unrecognized authentication method", TRUE, "text")

\* A mutant of OnText: an unknown type disconnects.
OnTextStrict(c, message) ==
    IF message.t # "obj" \/ ~Has(message, "type")
    THEN ReportError(c, "malformed message received", TRUE, "text")
    ELSE LET messageType == AsString(Index(message, "type"))
         IN IF messageType \notin messageHandlers
            THEN ReportError(c, "Unknown message type received: " \o messageType,
                             TRUE, "text")
            ELSE OnAuthenticate(c, message)

\* Client::OnText.
OnText(c, message) ==
    IF message.t # "obj" \/ ~Has(message, "type")
    THEN ReportError(c, "malformed message received", TRUE, "text")
    ELSE LET messageType == AsString(Index(message, "type"))
         IN IF messageType \notin messageHandlers
            THEN ReportError(c, "Unknown message type received: " \o messageType,
                             FALSE, "text")
            ELSE OnAuthenticate(c, message)

\* A mutant of OnAuthenticationTimeout: it disconnects without the Error frame.
OnAuthenticationTimeoutQuiet(c) ==
    LET cleared == [c EXCEPT !.authenticationTimeout = 0]
    IN IF cleared.authenticated THEN cleared
       ELSE [cleared EXCEPT !.closing = @ \cup { "timer" }]

\* Client::OnAuthenticationTimeout.
OnAuthenticationTimeout(c) ==
    LET cleared == [c EXCEPT !.authenticationTimeout = 0]
    IN IF cleared.authenticated THEN cleared
       ELSE ReportError(cleared, "Authentication timeout", TRUE, "timer")

\* A mutant of OnCompletion: the entry stays in the table while onCompletion
\* runs.
OnCompletionKeeping(c, id, response) ==
    LET called == [c EXCEPT !.callbacks =
                       Append(@, [id |-> id, found |-> c.httpClientTransactions])]
        scan   == Sscanf(AsChars(Index(response.body, "user_id")))
    IN IF response.statusCode = 200 /\ scan.count = 1
       THEN OnAuthenticated(AddIdentifier(called, "twitch:" \o ToString(scan.value)))
       ELSE ReportError(called, "Invalid OAuth token", TRUE, "http")

\* The completion delegate of the validation request, for a transaction whose
\* entry is in the table: the entry is erased and onCompletion is called with
\* its onSuccess and onFailure, under the Client's mutex.
OnCompletion(c, id, response) ==
    LET erased == [c EXCEPT !.httpClientTransactions = @ \ { id }]
        called == [erased EXCEPT !.callbacks =
                       Append(@, [id |-> id, found |-> erased.httpClientTransactions])]
        scan   == Sscanf(AsChars(Index(response.body, "user_id")))
    IN IF response.statusCode = 200 /\ scan.count = 1
       THEN OnAuthenticated(AddIdentifier(called, "twitch:" \o ToString(scan.value)))
       ELSE ReportError(called, "Invalid OAuth token", TRUE, "http")

\* (double)configuration["WebSocketAuthenticationTimeout"].
WebSocketAuthenticationTimeout ==
    AsDouble(Index(GetDataString(store, "Configuration"),
                   "WebSocketAuthenticationTimeout"))

InitWs ==
    /\ store \in WsDocs
    /\ mobilized = TRUE
    /\ generation = 1
    /\ minSaveInterval = defaultMinSaveInterval
    /\ saving = FALSE
    /\ dirty = FALSE
    /\ nextSaveTime = 0
    /\ nextSaveToken = 0
    /\ scheduled = {}
    /\ dispatched = {}
    /\ tokens = 0
    /\ now = 0
    /\ caller = "none"
    /\ path = << >>
    /\ rolesHeld = {}
    /\ result = Invalid
    /\ unsaved = FALSE
    /\ lastMutation = 0
    /\ winFirst = -1
    /\ winCount = 0
    /\ winSaves = 0
    /\ lastScheduled = NoCallback
    /\ orphaned = {}
    /\ SubIdle
    /\ WsIdle
    /\ RolesIdle
    /\ HttpIdle
    /\ ListenerIdle
    /\ LocksIdle
    /\ ServiceIdle
    /\ lastOp = "none"

\* selfWeak.lock() gives the Client: the listener's registry holds it while the
\* session is open, the timer's callback and the completion delegate hold it
\* while they run.
ClientAlive == session = "open" \/ closing \cap { "timer", "http" } # {}

\* What a step of the session leaves alone.
WsFrame ==
    UNCHANGED << store, saveVars, queryVars, histVars, subVars, extVars >>

\* Client::OnOpened: the timer is given to the scheduler.
OnOpened ==
    /\ session = "none"
    /\ session' = "open"
    /\ openTime' = now
    /\ authenticationTimeout' = 1
    /\ authTimer' = [state |-> "scheduled", due |-> now + WebSocketAuthenticationTimeout]
    /\ lastOp' = "Opened"
    /\ WsFrame
    /\ UNCHANGED << now, authenticated, identifiers, roles, httpClientTransactions,
                    nextHttpClientTransactionId, inFlight, callbacks, closing, frames, closeCodes,
                    received, lastMessage, lastResponse >>

\* A text is delivered to the open session.
Text(message) ==
    /\ session = "open"
    /\ "text" \notin closing
    /\ received < MaxMessages
    /\ SetClient(OnText(Client, message))
    /\ received' = received + 1
    /\ lastMessage' = message
    /\ lastOp' = "Text"
    /\ WsFrame
    /\ UNCHANGED << now, session, closeCodes, openTime, lastResponse >>

\* The scheduler's thread takes the timer when its time has come.
TimerDispatch ==
    /\ authTimer.state = "scheduled"
    /\ authTimer.due <= now
    /\ authTimer' = [authTimer EXCEPT !.state = "dispatched"]
    /\ lastOp' = "TimerDispatch"
    /\ WsFrame
    /\ UNCHANGED << now, session, authenticated, authenticationTimeout, identifiers,
                    roles, httpClientTransactions, nextHttpClientTransactionId, inFlight, callbacks,
                    closing, frames, closeCodes, openTime, received, lastMessage,
                    lastResponse >>

\* The timer's callback runs.
TimerRun ==
    /\ authTimer.state = "dispatched"
    /\ IF ClientAlive
       THEN SetClient(OnAuthenticationTimeout([Client EXCEPT !.authTimer.state = "done"]))
       ELSE /\ authTimer' = [authTimer EXCEPT !.state = "done"]
            /\ UNCHANGED << authenticated, authenticationTimeout, identifiers, roles,
                            httpClientTransactions, nextHttpClientTransactionId, inFlight, callbacks,
                            closing, frames >>
    /\ lastOp' = "Timeout"
    /\ WsFrame
    /\ UNCHANGED << now, session, closeCodes, openTime, received, lastMessage,
                    lastResponse >>

\* The Http client completes a transaction and calls its completion delegate,
\* which does nothing when the Client is gone or the entry is not in its table.
HttpComplete(id, response) ==
    /\ id \in inFlight
    /\ IF ClientAlive /\ id \in httpClientTransactions
       THEN SetClient(OnCompletion([Client EXCEPT !.inFlight = @ \ { id }], id, response))
       ELSE /\ inFlight' = inFlight \ { id }
            /\ UNCHANGED << authenticated, authenticationTimeout, identifiers, roles,
                            httpClientTransactions, nextHttpClientTransactionId,
                            callbacks, authTimer, closing, frames >>
    /\ lastResponse' = response
    /\ lastOp' = "HttpReply"
    /\ WsFrame
    /\ UNCHANGED << now, session, closeCodes, openTime, received, lastMessage >>

CloseName(th) ==
    CASE th = "text" -> "CloseText"
      [] th = "timer" -> "CloseTimer"
      [] th = "http" -> "CloseHttp"

\* closeDelegate(1005, "") on the thread th: under the listener's mutex the
\* WebSocket of a session that is not yet closed is closed with the code.
CloseDelegate(th) ==
    /\ th \in closing
    /\ th = "text" \/ "text" \notin closing
    /\ closing' = closing \ { th }
    /\ IF session = "open"
       THEN /\ session' = "closed"
            /\ closeCodes' = Append(closeCodes, 1005)
       ELSE UNCHANGED << session, closeCodes >>
    /\ lastOp' = CloseName(th)
    /\ WsFrame
    /\ UNCHANGED << now, authenticated, authenticationTimeout, identifiers, roles,
                    httpClientTransactions, nextHttpClientTransactionId, inFlight, callbacks, authTimer,
                    frames, openTime, received, lastMessage, lastResponse >>

\* The clock advances, unless the timer is due or a thread is about to close.
\* Time is not followed beyond the close of the session.
Tick ==
    /\ now < MaxTime
    /\ session # "closed"
    /\ closing = {}
    /\ authTimer.state # "dispatched"
    /\ authTimer.state = "scheduled" => authTimer.due > now
    /\ now' = now + 1
    /\ lastOp' = "Tick"
    /\ WsFrame
    /\ UNCHANGED wsVars

NextWs ==
    \/ OnOpened
    \/ \E message \in Messages : Text(message)
    \/ TimerDispatch
    \/ TimerRun
    \/ \E id \in inFlight, response \in Responses :
           HttpComplete(id, response)
    \/ \E th \in closing : CloseDelegate(th)
    \/ Tick

SpecWs == InitWs /\ [][NextWs]_vars

-----------------------------------------------------------------------------
(* SpecRoles: the calls of UpdateRoles made on the way down a document,    *)
(* one per policy node, each starting from what the call before it left.   *)

\* The keys of meta.require and meta.allow, and the member of RolesPermitted
\* each is about.
Operations ==
    { "read_data", "read_meta", "write_data", "write_meta", "create_data",
      "delete_data" }

Field ==
    [K \in Operations |->
        CASE K = "read_data"   -> "readData"
          [] K = "read_meta"   -> "readMeta"
          [] K = "write_data"  -> "writeData"
          [] K = "write_meta"  -> "writeMeta"
          [] K = "create_data" -> "createData"
          [] K = "delete_data" -> "deleteData"]

\* The metas of the policy nodes: each key alone under require and under allow,
\* a key under both, keys next to "create" and "delete", a value that is no
\* array, and a node without meta.
RoleMetas ==
    { MetaRequire(K :> RoleArray(<<"x">>)) : K \in Operations }
    \cup { MetaAllow(K :> RoleArray(<<"y">>)) : K \in Operations }
    \cup { Obj(("require" :> Obj(K :> RoleArray(<<"x">>)))
            @@ ("allow" :> Obj(K :> RoleArray(<<"y">>)))) :
           K \in { "read_data", "read_meta", "write_data", "write_meta" } }
    \cup { MetaRequire(("create_data" :> RoleArray(<<"x">>))
                    @@ ("create" :> RoleArray(<<"y">>))),
           MetaAllow(("delete_data" :> RoleArray(<<"x">>))
                  @@ ("delete" :> RoleArray(<<"y">>))),
           MetaRequire("read_data" :> RoleArray(<< >>)),
           MetaRequire("read_data" :> Str("x")),
           Null }
    \cup Metas

InitRoles ==
    /\ Init

\* Store::Impl::GetData begins: RolesPermitted is default-constructed.
StartDescent ==
    /\ inherited' = NoRolesPermitted
    /\ nodeMeta' = Invalid
    /\ required' = NoRolesPermitted
    /\ innerRolesPermitted' = NoRolesPermitted
    /\ lastOp' = "StartDescent"
    /\ UNCHANGED << store, storeVars, queryVars, histVars, subVars, wsVars, httpVars,
                    apiVars, moreVars >>

\* A policy node with meta m is entered: UpdateRoles(rolesPermitted, root["meta"]).
EnterPolicyNode(m) ==
    /\ inherited' = innerRolesPermitted
    /\ nodeMeta' = m
    /\ required' = IF Has(m, "require")
                   THEN Require(innerRolesPermitted, Index(m, "require"))
                   ELSE innerRolesPermitted
    /\ innerRolesPermitted' = UpdateRoles(innerRolesPermitted, m)
    /\ lastOp' = "UpdateRoles"
    /\ UNCHANGED << store, storeVars, queryVars, histVars, subVars, wsVars, httpVars,
                    apiVars, moreVars >>

NextRoles ==
    \/ StartDescent
    \/ \E m \in RoleMetas : EnterPolicyNode(m)

SpecRoles == InitRoles /\ [][NextRoles]_vars

-----------------------------------------------------------------------------
(* SpecHttp: the delegates ApiHttp::RegisterResources gives the HTTP       *)
(* server, one per registered handler, serving the requests routed to them *)
(* while the Store lives and after it is gone.                             *)

\* The registrations DEFINE_HANDLER makes.
HandlerRegistrations ==
    { [handler |-> "Unknown", resourceSubspacePath |-> << >>,
       methods |-> { "GET", "PUT", "POST", "DELETE" }],
      [handler |-> "Test", resourceSubspacePath |-> << "data" >>,
       methods |-> { "GET" }] }

\* The methods of the requests that arrive.
Methods == { "GET", "PUT", "POST", "DELETE", "HEAD", "OPTIONS", "PATCH" }

\* The documents the Store holds while requests are served.
HttpDocs == { DocSecret, DocThing, EmptyObj, Obj("a" :> Num(1)) }

\* Json::Value::ToEncoding: a text that is never empty.  A body is the sequence
\* of the values encoded in it, empty for the empty string.
ToEncoding(val) == << val >>

SetHeader(r, name, value) == [r EXCEPT !.headers = @ \cup { << name, value >> }]

\* The handlers: what each returns and what it makes of the response.
Unknown(r) ==
    [response |-> [r EXCEPT !.statusCode = 404, !.reasonPhrase = "Not Found"],
     value |-> Obj("message" :> Str("No such resource defined"))]

TestHandler(r, p) ==
    [response |-> r, value |-> GetData(store, p, { "public" })]

Handle(handler, r, p) ==
    IF handler = "Unknown" THEN Unknown(r) ELSE TestHandler(r, p)

\* The end of the delegate: the headers that depend on the body and the status.
Finish(r) ==
    LET sized == IF r.body = << >> THEN SetHeader(r, "Content-Length", "0")
                 ELSE SetHeader(r, "Content-Type", "application/json")
    IN IF sized.statusCode \div 100 = 2
       THEN SetHeader(sized, "Access-Control-Allow-Origin", "*") ELSE sized

\* A mutant of Delegate: the method is looked at before the Store.
DelegateMethodFirst(registration, method, p) ==
    LET fresh == [statusCode |-> 0, reasonPhrase |-> "", body |-> << >>, headers |-> {}]
    IN IF method \notin registration.methods
       THEN [response |-> Finish([fresh EXCEPT !.statusCode = 405,
                                               !.reasonPhrase = "Method Not Allowed"]),
             handled |-> "none"]
       ELSE IF ~alive
       THEN [response |-> Finish([fresh EXCEPT
                 !.statusCode = 503,
                 !.reasonPhrase = "Service Unavailable",
                 !.body = ToEncoding(Obj("message" :>
                     Str("The service is shutting down.  Please try again later!")))]),
             handled |-> "none"]
       ELSE LET ok  == [fresh EXCEPT !.statusCode = 200, !.reasonPhrase = "OK"]
                out == Handle(registration.handler, ok, p)
            IN [response |-> Finish([out.response EXCEPT !.body = ToEncoding(out.value)]),
                handled |-> registration.handler]

\* The delegate registered for a handler: the response it returns and the
\* handler it called.
Delegate(registration, method, p) ==
    LET fresh == [statusCode |-> 0, reasonPhrase |-> "", body |-> << >>, headers |-> {}]
    IN IF ~alive
       THEN [response |-> Finish([fresh EXCEPT
                 !.statusCode = 503,
                 !.reasonPhrase = "Service Unavailable",
                 !.body = ToEncoding(Obj("message" :>
                     Str("The service is shutting down.  Please try again later!")))]),
             handled |-> "none"]
       ELSE IF method \notin registration.methods
       THEN [response |-> Finish([fresh EXCEPT !.statusCode = 405,
                                               !.reasonPhrase = "Method Not Allowed"]),
             handled |-> "none"]
       ELSE LET ok  == [fresh EXCEPT !.statusCode = 200, !.reasonPhrase = "OK"]
                out == Handle(registration.handler, ok, p)
            IN [response |-> Finish([out.response EXCEPT !.body = ToEncoding(out.value)]),
                handled |-> registration.handler]

InitHttp ==
    /\ InitGet
    /\ store \in HttpDocs

\* The server routes a request to a registered resource and calls its delegate.
Serve(registration, method, p) ==
    /\ httpRequest' = [resource |-> registration.handler, method |-> method, path |-> p]
    /\ httpResponse' = Delegate(registration, method, p).response
    /\ handled' = Delegate(registration, method, p).handled
    /\ lastOp' = "Serve"
    /\ UNCHANGED << store, storeVars, queryVars, histVars, subVars, wsVars, roleVars,
                    apiVars, moreVars >>

\* The last owner lets go of the Store: ~Store runs Demobilize, and
\* storeWeak.lock() gives nullptr from now on.
ReleaseStore ==
    /\ alive
    /\ alive' = FALSE
    /\ mobilized' = FALSE
    /\ saving' = FALSE
    /\ dirty' = FALSE
    /\ lastOp' = "ReleaseStore"
    /\ UNCHANGED << store, generation, minSaveInterval, nextSaveTime, nextSaveToken,
                    scheduled, dispatched, tokens, now, queryVars, histVars, wsVars,
                    extVars, mutex, stack, subscribers, nextSubscriptionToken,
                    closures, subLog, lastCall >>

NextHttp ==
    \/ \E registration \in HandlerRegistrations, method \in Methods, p \in Paths :
           Serve(registration, method, p)
    \/ ReleaseStore

SpecHttp == InitHttp /\ [][NextHttp]_vars

-----------------------------------------------------------------------------
(* SpecApiWs: the listener ApiWs::Impl with its registry of sessions.  The *)
(* delegates a WebSocket or a session calls begin on their own thread and  *)
(* wait for ApiWs::Impl::mutex; what they do under the mutex is one step.  *)
(* A session is the slot of its WebSocket; what it does with a text is not *)
(* followed here, except that it may call its close delegate.              *)

CloseLinger == 2
MaxDeliveries == 2

\* The document the listener's Store holds.
ApiDoc == Obj("Configuration" :> Obj("WebSocketCloseLinger" :> Num(CloseLinger)))

\* A mutant of WebSocketCloseLinger: a key the configuration does not have.
WebSocketCloseLingerNone ==
    AsDouble(Index(GetDataString(store, "Configuration"), "CloseLinger"))

\* (double)configuration["WebSocketCloseLinger"].
WebSocketCloseLinger ==
    AsDouble(Index(GetDataString(store, "Configuration"), "WebSocketCloseLinger"))

\* What CloseWebSocket reads and writes.
Listener ==
    [clients |-> clients, lingers |-> lingers, wsCloses |-> wsCloses,
     onClosedCalls |-> onClosedCalls, closedAt |-> closedAt]

SetListener(l) ==
    /\ clients' = l.clients
    /\ lingers' = l.lingers
    /\ wsCloses' = l.wsCloses
    /\ onClosedCalls' = l.onClosedCalls
    /\ closedAt' = l.closedAt

\* What CloseWebSocket does to a slot that holds a session.
CloseSession(l, w) ==
    [l EXCEPT !.wsCloses[w] = @ + 1,
              !.onClosedCalls[w] = @ + 1,
              !.clients[w] = "null",
              !.closedAt[w] = now,
              !.lingers = @ \cup { [kind |-> "linger", ws |-> w,
                                    gen |-> listenerGeneration,
                                    due |-> now + WebSocketCloseLinger] }]

\* A mutant of CloseWebSocket: a nulled slot is closed again.
CloseWebSocketUnguarded(l, w) ==
    IF l.clients[w] = "absent" THEN l ELSE CloseSession(l, w)

\* ApiWs::Impl::CloseWebSocket.
CloseWebSocket(l, w) ==
    IF l.clients[w] = "absent" \/ l.clients[w] = "null" THEN l
    ELSE CloseSession(l, w)

\* for (auto& client: impl_->clients) CloseWebSocket(client.first).
RECURSIVE Sweep(_, _)
Sweep(l, remaining) ==
    IF remaining = {} THEN l
    ELSE LET w == CHOOSE x \in remaining : TRUE
         IN Sweep(CloseWebSocket(l, w), remaining \ { w })

\* The test the close, text and linger closures make under the mutex.
Stale(gen) == ~listenerMobilized \/ listenerGeneration # gen

InitApiWs ==
    /\ store = ApiDoc
    /\ mobilized = TRUE
    /\ generation = 1
    /\ minSaveInterval = defaultMinSaveInterval
    /\ saving = FALSE
    /\ dirty = FALSE
    /\ nextSaveTime = 0
    /\ nextSaveToken = 0
    /\ scheduled = {}
    /\ dispatched = {}
    /\ tokens = 0
    /\ now = 0
    /\ caller = "none"
    /\ path = << >>
    /\ rolesHeld = {}
    /\ result = Invalid
    /\ unsaved = FALSE
    /\ lastMutation = 0
    /\ winFirst = -1
    /\ winCount = 0
    /\ winSaves = 0
    /\ lastScheduled = NoCallback
    /\ orphaned = {}
    /\ SubIdle
    /\ WsIdle
    /\ RolesIdle
    /\ HttpIdle
    /\ ListenerIdle
    /\ LocksIdle
    /\ ServiceIdle
    /\ lastOp = "none"

\* What a step of the listener leaves alone.
ApiFrame ==
    UNCHANGED << store, saveVars, queryVars, histVars, subVars, wsVars, roleVars,
                 httpVars, moreVars >>

\* ApiWs::Mobilize.
ApiWsMobilize ==
    /\ ~crashed
    /\ IF listenerMobilized
       THEN UNCHANGED << listenerMobilized, listenerGeneration >>
       ELSE /\ listenerGeneration < MaxGeneration
            /\ listenerGeneration' = listenerGeneration + 1
            /\ listenerMobilized' = TRUE
    /\ lastOp' = "ApiMobilize"
    /\ lastRan' = [kind |-> "none", ws |-> 0, gen |-> 0]
    /\ ApiFrame
    /\ UNCHANGED << now, clients, sockets, createdIn, lingers, pending, delivered,
                    wsCloses, onClosedCalls, closedAt, texts, nullDeref, crashed >>

\* A mutant of ApiWsDemobilize: the registry is left as it is.
ApiWsDemobilizeKeeping ==
    /\ ~crashed
    /\ listenerMobilized' = FALSE
    /\ lastOp' = "ApiDemobilize"
    /\ lastRan' = [kind |-> "none", ws |-> 0, gen |-> 0]
    /\ ApiFrame
    /\ UNCHANGED << now, clients, lingers, wsCloses, onClosedCalls, closedAt,
                    listenerGeneration, sockets, createdIn, pending, delivered,
                    texts, nullDeref, crashed >>

\* ApiWs::Demobilize: every session is closed, the registry is cleared.  The
\* scheduler is let go of; the callbacks it held are kept here, as callbacks
\* that may still be running.
ApiWsDemobilize ==
    /\ ~crashed
    /\ IF ~listenerMobilized
       THEN UNCHANGED << clients, lingers, wsCloses, onClosedCalls, closedAt,
                         listenerMobilized >>
       ELSE /\ SetListener([Sweep(Listener, WebSockets) EXCEPT
                               !.clients = [w \in WebSockets |-> "absent"]])
            /\ listenerMobilized' = FALSE
    /\ lastOp' = "ApiDemobilize"
    /\ lastRan' = [kind |-> "none", ws |-> 0, gen |-> 0]
    /\ ApiFrame
    /\ UNCHANGED << now, listenerGeneration, sockets, createdIn, pending, delivered,
                    texts, nullDeref, crashed >>

\* HandleWebSocketRequest with a request that OpenAsServer accepts: a new
\* WebSocket is registered with a new session, its delegates capture the
\* generation.
Accept ==
    /\ ~crashed
    /\ listenerMobilized
    /\ sockets < MaxSockets
    /\ sockets' = sockets + 1
    /\ clients' = [clients EXCEPT ![sockets + 1] = "client"]
    /\ createdIn' = [createdIn EXCEPT ![sockets + 1] = listenerGeneration]
    /\ lastOp' = "Accept"
    /\ lastRan' = [kind |-> "none", ws |-> 0, gen |-> 0]
    /\ ApiFrame
    /\ UNCHANGED << now, listenerMobilized, listenerGeneration, lingers, pending,
                    delivered, wsCloses, onClosedCalls, closedAt, texts, nullDeref,
                    crashed >>

\* The WebSocket exists: the registry holds it, or a closure that has locked
\* wsWeak does.
WsAlive(w) ==
    clients[w] # "absent" \/ \E call \in pending : call.ws = w

\* A WebSocket calls delegates.text or delegates.close, or a thread of a live
\* session calls the session's close delegate: the closure locks implWeak and
\* wsWeak and goes for the mutex.
Begin(kind, w) ==
    /\ ~crashed
    /\ createdIn[w] # 0
    /\ IF kind = "session" THEN clients[w] = "client" ELSE WsAlive(w)
    /\ delivered < MaxDeliveries
    /\ [kind |-> kind, ws |-> w, gen |-> createdIn[w]] \notin pending
    /\ pending' = pending \cup { [kind |-> kind, ws |-> w, gen |-> createdIn[w]] }
    /\ delivered' = delivered + 1
    /\ lastOp' = "Begin"
    /\ lastRan' = [kind |-> "none", ws |-> 0, gen |-> 0]
    /\ ApiFrame
    /\ UNCHANGED << now, clients, listenerMobilized, listenerGeneration, sockets,
                    createdIn, lingers, wsCloses, onClosedCalls, closedAt, texts,
                    nullDeref, crashed >>

\* delegates.close under the mutex: OnWebSocketClosed, which is CloseWebSocket.
RunClose(call) ==
    /\ ~crashed
    /\ call \in pending /\ call.kind = "close"
    /\ pending' = pending \ { call }
    /\ IF Stale(call.gen)
       THEN UNCHANGED << clients, lingers, wsCloses, onClosedCalls, closedAt >>
       ELSE SetListener(CloseWebSocket(Listener, call.ws))
    /\ lastOp' = "RunClose"
    /\ lastRan' = call
    /\ ApiFrame
    /\ UNCHANGED << now, listenerMobilized, listenerGeneration, sockets, createdIn,
                    delivered, texts, nullDeref, crashed >>

\* The session's close delegate under the mutex: CloseWebSocket(ws, code, reason).
RunSession(call) ==
    /\ ~crashed
    /\ call \in pending /\ call.kind = "session"
    /\ pending' = pending \ { call }
    /\ SetListener(CloseWebSocket(Listener, call.ws))
    /\ lastOp' = "RunSession"
    /\ lastRan' = call
    /\ ApiFrame
    /\ UNCHANGED << now, listenerMobilized, listenerGeneration, sockets, createdIn,
                    delivered, texts, nullDeref, crashed >>

\* delegates.text under the mutex: OnWebSocketText looks the WebSocket up and
\* calls OnText through the slot it finds.  A slot that holds a session gets
\* the text, and the session may call its close delegate before it returns.  A
\* nulled slot is a call through a null pointer: the process ends, or the call
\* comes back.
RunText(call, disconnect, ends) ==
    /\ ~crashed
    /\ call \in pending /\ call.kind = "text"
    /\ pending' = pending \ { call }
    /\ IF Stale(call.gen) \/ clients[call.ws] = "absent"
       THEN UNCHANGED << clients, lingers, wsCloses, onClosedCalls, closedAt, texts,
                         nullDeref, crashed >>
       ELSE IF clients[call.ws] = "null"
       THEN /\ nullDeref' = TRUE
            /\ crashed' = ends
            /\ UNCHANGED << clients, lingers, wsCloses, onClosedCalls, closedAt,
                            texts >>
       ELSE /\ texts' = [texts EXCEPT ![call.ws] = @ + 1]
            /\ IF disconnect
               THEN SetListener(CloseWebSocket(Listener, call.ws))
               ELSE UNCHANGED << clients, lingers, wsCloses, onClosedCalls, closedAt >>
            /\ UNCHANGED << nullDeref, crashed >>
    /\ lastOp' = "RunText"
    /\ lastRan' = call
    /\ ApiFrame
    /\ UNCHANGED << now, listenerMobilized, listenerGeneration, sockets, createdIn,
                    delivered >>

\* The erase callback of CloseWebSocket, run by a scheduler when its time has
\* come.
LingerRun(call) ==
    /\ ~crashed
    /\ call \in lingers
    /\ call.due <= now
    /\ lingers' = lingers \ { call }
    /\ IF WsAlive(call.ws) /\ ~Stale(call.gen) /\ clients[call.ws] # "absent"
       THEN clients' = [clients EXCEPT ![call.ws] = "absent"]
       ELSE UNCHANGED clients
    /\ lastOp' = "Linger"
    /\ lastRan' = [kind |-> "linger", ws |-> call.ws, gen |-> call.gen]
    /\ ApiFrame
    /\ UNCHANGED << now, listenerMobilized, listenerGeneration, sockets, createdIn,
                    pending, delivered, wsCloses, onClosedCalls, closedAt, texts,
                    nullDeref, crashed >>

\* The clock advances, unless an erase callback of the running scheduler is due.
\* Time is followed while that scheduler holds a callback.
ApiTick ==
    /\ ~crashed
    /\ now < MaxTime
    /\ \A call \in lingers : Stale(call.gen) \/ call.due > now
    /\ \E call \in lingers : ~Stale(call.gen)
    /\ now' = now + 1
    /\ lastOp' = "ApiTick"
    /\ lastRan' = [kind |-> "none", ws |-> 0, gen |-> 0]
    /\ ApiFrame
    /\ UNCHANGED << clients, listenerMobilized, listenerGeneration, sockets,
                    createdIn, lingers, pending, delivered, wsCloses, onClosedCalls,
                    closedAt, texts, nullDeref, crashed >>

NextApiWs ==
    \/ ApiWsMobilize
    \/ ApiWsDemobilize
    \/ Accept
    \/ \E kind \in { "text", "close", "session" }, w \in WebSockets : Begin(kind, w)
    \/ \E call \in pending : RunClose(call)
    \/ \E call \in pending : RunSession(call)
    \/ \E call \in pending, disconnect \in BOOLEAN, ends \in BOOLEAN :
           RunText(call, disconnect, ends)
    \/ \E call \in lingers : LingerRun(call)
    \/ ApiTick

SpecApiWs == InitApiWs /\ [][NextApiWs]_vars

-----------------------------------------------------------------------------
(* SpecLocks: the order in which the threads of the listener take          *)
(* ApiWs::Impl::mutex (recursive), the mutex of a session's Client and the *)
(* Store's mutex.  One session is registered.  A call is the sequence of   *)
(* the steps it has still to take: lock, unlock, or a named piece of code  *)
(* that runs under the locks held and decides, from what it finds, the     *)
(* steps that follow.                                                      *)

MaxCalls == 1

ToLock(k)   == [op |-> "lock", k |-> k]
ToUnlock(k) == [op |-> "unlock", k |-> k]
ToDo(name)  == [op |-> name, k |-> "none"]

\* Store::GetData: lock_guard on the Store's mutex.
StoreGetDataCall == << ToLock("store"), ToUnlock("store") >>

\* CloseWebSocket past its test: Client::OnClosed locks the session, the slot
\* is nulled, the linger is read from the Store.
CloseWebSocketBody ==
    << ToLock("session"), ToUnlock("session"), ToDo("nullify") >> \o StoreGetDataCall

\* The close delegate HandleWebSocketRequest gives a Client.
CloseDelegateCall ==
    << ToDo("closeDelegate"), ToLock("listener"), ToDo("CloseWebSocket"),
       ToUnlock("listener") >>

\* A mutant of ReportErrorDisconnect: the close delegate is called with the
\* session's mutex held.
ReportErrorLocked == CloseDelegateCall \o << ToUnlock("session") >>

\* Client::ReportError with disconnect: unlock, then the close delegate.
ReportErrorDisconnect == << ToUnlock("session") >> \o CloseDelegateCall

\* What Client::OnText does once it holds the session's mutex: a malformed
\* message or an unrecognized method, an unknown type or a repeated
\* Authenticate, a valid key, an invalid key, a twitch token.
OnTextBodies ==
    { ReportErrorDisconnect,
      << ToUnlock("session") >>,
      StoreGetDataCall \o StoreGetDataCall \o << ToUnlock("session") >>,
      StoreGetDataCall \o ReportErrorDisconnect,
      << ToDo("Request"), ToUnlock("session") >> }

\* What the completion delegate does once it holds the session's mutex: the
\* transaction is not in the table, the token is valid, the token is not.
OnCompletionBodies ==
    { << ToUnlock("session") >>,
      StoreGetDataCall \o StoreGetDataCall \o << ToUnlock("session") >>,
      ReportErrorDisconnect }

\* What OnAuthenticationTimeout does once it holds the session's mutex.
OnAuthenticationTimeoutBodies ==
    { << ToUnlock("session") >>, ReportErrorDisconnect }

\* The calls the threads make.
CallOf(t) ==
    CASE t = "timer"      -> << ToDo("selfWeak"), ToLock("session"),
                                ToDo("OnAuthenticationTimeout") >>
      [] t = "completion" -> << ToDo("selfWeak"), ToLock("session"),
                                ToDo("onCompletion") >>
      [] t = "text"       -> << ToLock("listener"), ToDo("OnWebSocketText"),
                                ToUnlock("listener") >>
      [] t = "close"      -> << ToLock("listener"), ToDo("OnWebSocketClosed"),
                                ToUnlock("listener") >>
      [] t = "main"       -> << ToLock("listener"), ToDo("Demobilize"),
                                ToUnlock("listener") >>

\* The Client exists: the registry holds it, or a timer callback or a
\* completion delegate that locked selfWeak has not returned.
ClientHeld(t) ==
    \/ sessionSlot = "client"
    \/ \E u \in { "timer", "completion" } \ { t } :
           program[u] # << >> /\ Head(program[u]).op # "selfWeak"

InitLocks ==
    /\ store = ApiDoc
    /\ mobilized = TRUE
    /\ generation = 1
    /\ minSaveInterval = defaultMinSaveInterval
    /\ saving = FALSE
    /\ dirty = FALSE
    /\ nextSaveTime = 0
    /\ nextSaveToken = 0
    /\ scheduled = {}
    /\ dispatched = {}
    /\ tokens = 0
    /\ now = 0
    /\ caller = "none"
    /\ path = << >>
    /\ rolesHeld = {}
    /\ result = Invalid
    /\ unsaved = FALSE
    /\ lastMutation = 0
    /\ winFirst = -1
    /\ winCount = 0
    /\ winSaves = 0
    /\ lastScheduled = NoCallback
    /\ orphaned = {}
    /\ SubIdle
    /\ WsIdle
    /\ RolesIdle
    /\ HttpIdle
    /\ ListenerIdle
    /\ ServiceIdle
    /\ lockOwner = [k \in Locks |-> "none"]
    /\ lockDepth = [k \in Locks |-> 0]
    /\ program = [t \in LockThreads |-> << >>]
    /\ started = [t \in LockThreads |-> 0]
    /\ sessionSlot = "client"
    /\ listening = TRUE
    /\ processEnded = FALSE
    /\ lastOp = "none"

\* What a step of a thread leaves alone.
LocksFrame ==
    UNCHANGED << store, saveVars, now, queryVars, histVars, subVars, wsVars, roleVars,
                 httpVars, apiVars, svcVars >>

\* A thread begins its call.  The completion delegate is called only for a
\* transaction that OnText has posted.
LockCall(t) ==
    /\ ~processEnded
    /\ t # "completion"
    /\ program[t] = << >>
    /\ started[t] < MaxCalls
    /\ program' = [program EXCEPT ![t] = CallOf(t)]
    /\ started' = [started EXCEPT ![t] = @ + 1]
    /\ lastOp' = "LockCall"
    /\ LocksFrame
    /\ UNCHANGED << lockOwner, lockDepth, sessionSlot, listening, processEnded >>

\* The thread's next step is to lock a mutex that another thread holds, or
\* that it holds itself and that is not recursive.
Blocked(t) ==
    /\ program[t] # << >>
    /\ Head(program[t]).op = "lock"
    /\ lockOwner[Head(program[t]).k] # "none"
    /\ ~(Head(program[t]).k = "listener" /\ lockOwner["listener"] = t)

\* lock_guard and unique_lock's constructor.
TakeLock(t) ==
    /\ ~processEnded
    /\ program[t] # << >>
    /\ Head(program[t]).op = "lock"
    /\ ~Blocked(t)
    /\ LET k == Head(program[t]).k
       IN /\ lockOwner' = [lockOwner EXCEPT ![k] = t]
          /\ lockDepth' = [lockDepth EXCEPT ![k] = @ + 1]
    /\ program' = [program EXCEPT ![t] = Tail(@)]
    /\ lastOp' = "TakeLock"
    /\ LocksFrame
    /\ UNCHANGED << started, sessionSlot, listening, processEnded >>

\* The end of a lock's scope, and lock.unlock().
DropLock(t) ==
    /\ ~processEnded
    /\ program[t] # << >>
    /\ Head(program[t]).op = "unlock"
    /\ LET k == Head(program[t]).k
       IN /\ lockOwner[k] = t
          /\ lockDepth' = [lockDepth EXCEPT ![k] = @ - 1]
          /\ lockOwner' = [lockOwner EXCEPT ![k] = IF lockDepth[k] = 1 THEN "none" ELSE t]
    /\ program' = [program EXCEPT ![t] = Tail(@)]
    /\ lastOp' = "DropLock"
    /\ LocksFrame
    /\ UNCHANGED << started, sessionSlot, listening, processEnded >>

\* The steps that follow a piece of code, from what it finds.
Continue(t, steps) ==
    program' = [program EXCEPT ![t] = steps \o Tail(@)]

\* The thread's next step is the named piece of code.
AtCode(t, name) ==
    /\ ~processEnded
    /\ program[t] # << >>
    /\ Head(program[t]).op = name
    /\ lastOp' = name
    /\ LocksFrame
    /\ UNCHANGED << lockOwner, lockDepth, started >>

\* selfWeak.lock() of the timer callback and of the completion delegate: the
\* call ends there when the Client is gone.
SelfWeak(t) ==
    /\ AtCode(t, "selfWeak")
    /\ program' = [program EXCEPT ![t] = IF ClientHeld(t) THEN Tail(@) ELSE << >>]
    /\ UNCHANGED << sessionSlot, listening, processEnded >>

\* Client::OnAuthenticationTimeout, Client::OnText and the completion delegate
\* under the session's mutex.
UnderSession(t, name, bodies) ==
    /\ AtCode(t, name)
    /\ \E body \in bodies :
           /\ (\E i \in DOMAIN body : body[i].op = "Request")
                  => (program["completion"] = << >> /\ started["completion"] < MaxCalls)
           /\ Continue(t, body)
    /\ UNCHANGED << sessionSlot, listening, processEnded >>

OnAuthenticationTimeoutStep(t) ==
    UnderSession(t, "OnAuthenticationTimeout", OnAuthenticationTimeoutBodies)

OnTextStep(t) ==
    UnderSession(t, "OnText", OnTextBodies)

OnCompletionStep(t) ==
    UnderSession(t, "onCompletion", OnCompletionBodies)

\* httpClient->Request: the completion delegate will be called.
Request(t) ==
    /\ ~processEnded
    /\ program[t] # << >>
    /\ Head(program[t]).op = "Request"
    /\ program' = [program EXCEPT ![t] = Tail(@),
                                  !["completion"] = CallOf("completion")]
    /\ started' = [started EXCEPT !["completion"] = @ + 1]
    /\ lastOp' = "Request"
    /\ LocksFrame
    /\ UNCHANGED << lockOwner, lockDepth, sessionSlot, listening, processEnded >>

\* The call of the close delegate: nothing but the point where it is made.
CloseDelegateEntry(t) ==
    /\ AtCode(t, "closeDelegate")
    /\ Continue(t, << >>)
    /\ UNCHANGED << sessionSlot, listening, processEnded >>

\* ApiWs::Impl::CloseWebSocket: nothing for a slot that is absent or null.
CloseWebSocketStep(t) ==
    /\ AtCode(t, "CloseWebSocket")
    /\ Continue(t, IF sessionSlot = "client" THEN CloseWebSocketBody ELSE << >>)
    /\ UNCHANGED << sessionSlot, listening, processEnded >>

\* clientsEntry->second = nullptr.
Nullify(t) ==
    /\ AtCode(t, "nullify")
    /\ Continue(t, << >>)
    /\ sessionSlot' = "null"
    /\ UNCHANGED << listening, processEnded >>

\* delegates.close under the listener's mutex, then OnWebSocketClosed.
OnWebSocketClosedStep(t) ==
    /\ AtCode(t, "OnWebSocketClosed")
    /\ Continue(t, IF listening THEN << ToDo("CloseWebSocket") >> ELSE << >>)
    /\ UNCHANGED << sessionSlot, listening, processEnded >>

\* delegates.text under the listener's mutex, then OnWebSocketText: the call
\* through a null slot either ends the process or is survived.
OnWebSocketTextStep(t) ==
    /\ AtCode(t, "OnWebSocketText")
    /\ \/ /\ listening /\ sessionSlot = "client"
          /\ Continue(t, << ToLock("session"), ToDo("OnText") >>)
          /\ UNCHANGED processEnded
       \/ /\ ~listening \/ sessionSlot = "absent"
          /\ Continue(t, << >>)
          /\ UNCHANGED processEnded
       \/ /\ listening /\ sessionSlot = "null"
          /\ Continue(t, << >>)
          /\ processEnded' \in BOOLEAN
    /\ UNCHANGED << sessionSlot, listening >>

\* ApiWs::Demobilize under the listener's mutex.
DemobilizeStep(t) ==
    /\ AtCode(t, "Demobilize")
    /\ Continue(t, IF listening THEN << ToDo("CloseWebSocket"), ToDo("clear") >>
                   ELSE << >>)
    /\ UNCHANGED << sessionSlot, listening, processEnded >>

\* clients.clear() and mobilized = false.
Clear(t) ==
    /\ AtCode(t, "clear")
    /\ Continue(t, << >>)
    /\ sessionSlot' = "absent"
    /\ listening' = FALSE
    /\ UNCHANGED processEnded

NextLocks ==
    \/ \E t \in LockThreads : LockCall(t)
    \/ \E t \in LockThreads : TakeLock(t)
    \/ \E t \in LockThreads : DropLock(t)
    \/ \E t \in LockThreads : SelfWeak(t)
    \/ \E t \in LockThreads : OnAuthenticationTimeoutStep(t)
    \/ \E t \in LockThreads : OnTextStep(t)
    \/ \E t \in LockThreads : OnCompletionStep(t)
    \/ \E t \in LockThreads : Request(t)
    \/ \E t \in LockThreads : CloseDelegateEntry(t)
    \/ \E t \in LockThreads : CloseWebSocketStep(t)
    \/ \E t \in LockThreads : Nullify(t)
    \/ \E t \in LockThreads : OnWebSocketClosedStep(t)
    \/ \E t \in LockThreads : OnWebSocketTextStep(t)
    \/ \E t \in LockThreads : DemobilizeStep(t)
    \/ \E t \in LockThreads : Clear(t)

SpecLocks == InitLocks /\ [][NextLocks]_vars

-----------------------------------------------------------------------------
(* SpecService: Service::Impl::Run with its wait loop and ShutDown, while  *)
(* other threads call Service::Stop and, when the service runs in a        *)
(* terminal, SIGINT calls InterruptHandler.                                *)

MaxStops == 2
MaxInterrupts == 2

EXIT_SUCCESS == 0
EXIT_FAILURE == 1

\* What ShutDown demobilizes, in its order.
Components == << "apiWs", "httpClient", "httpServer" >>

InitService ==
    /\ store = DocDefaults
    /\ mobilized = TRUE
    /\ generation = 1
    /\ minSaveInterval = defaultMinSaveInterval
    /\ saving = FALSE
    /\ dirty = FALSE
    /\ nextSaveTime = 0
    /\ nextSaveToken = 0
    /\ scheduled = {}
    /\ dispatched = {}
    /\ tokens = 0
    /\ now = 0
    /\ caller = "none"
    /\ path = << >>
    /\ rolesHeld = {}
    /\ result = Invalid
    /\ unsaved = FALSE
    /\ lastMutation = 0
    /\ winFirst = -1
    /\ winCount = 0
    /\ winSaves = 0
    /\ lastScheduled = NoCallback
    /\ orphaned = {}
    /\ SubIdle
    /\ WsIdle
    /\ RolesIdle
    /\ HttpIdle
    /\ ListenerIdle
    /\ LocksIdle
    /\ runPc = "idle"
    /\ daemon \in BOOLEAN
    /\ shutDown = FALSE
    /\ stopServiceSet = FALSE
    /\ stopService = 0
    /\ stops = 0
    /\ interrupts = 0
    /\ shutDownOrder = << >>
    /\ exitCode = -1
    /\ lastOp = "none"

\* What a step of the service leaves alone.
ServiceFrame ==
    UNCHANGED << store, saveVars, now, queryVars, histVars, subVars, wsVars, roleVars,
                 httpVars, apiVars, lockVars, daemon >>

\* Run calls SetUp: the HTTP server or the HTTP client does not start, or all
\* is set up.
SetUp(outcome) ==
    /\ runPc = "idle"
    /\ IF outcome = "ok"
       THEN /\ runPc' = "loop"
            /\ UNCHANGED exitCode
       ELSE /\ runPc' = "returned"
            /\ exitCode' = EXIT_FAILURE
    /\ lastOp' = "SetUp"
    /\ ServiceFrame
    /\ UNCHANGED << shutDown, stopServiceSet, stopService, stops, interrupts,
                    shutDownOrder >>

\* while (!shutDown).
LoopTest ==
    /\ runPc = "loop"
    /\ runPc' = IF shutDown THEN "shutdown" ELSE "wait"
    /\ lastOp' = "LoopTest"
    /\ ServiceFrame
    /\ UNCHANGED << shutDown, stopServiceSet, stopService, stops, interrupts,
                    shutDownOrder, exitCode >>

\* A mutant of WaitFor: the wait always times out.
WaitForDeaf ==
    /\ runPc = "wait"
    /\ runPc' = "loop"
    /\ lastOp' = "WaitFor"
    /\ ServiceFrame
    /\ UNCHANGED << shutDown, stopServiceSet, stopService, stops, interrupts,
                    shutDownOrder, exitCode >>

\* serviceToldToStop.wait_for(100 ms): ready once the promise is set, else a
\* timeout and the next turn of the loop.
WaitFor ==
    /\ runPc = "wait"
    /\ runPc' = IF stopService > 0 THEN "shutdown" ELSE "loop"
    /\ lastOp' = "WaitFor"
    /\ ServiceFrame
    /\ UNCHANGED << shutDown, stopServiceSet, stopService, stops, interrupts,
                    shutDownOrder, exitCode >>

\* ShutDown demobilizes its next component; after the last, Run returns.
ShutDown ==
    /\ runPc = "shutdown"
    /\ shutDownOrder' = Append(shutDownOrder, Components[Len(shutDownOrder) + 1])
    /\ IF Len(shutDownOrder') = Len(Components)
       THEN /\ runPc' = "returned"
            /\ exitCode' = EXIT_SUCCESS
       ELSE UNCHANGED << runPc, exitCode >>
    /\ lastOp' = "ShutDown"
    /\ ServiceFrame
    /\ UNCHANGED << shutDown, stopServiceSet, stopService, stops, interrupts >>

\* A mutant of Stop: it does not look at stopServiceSet.
StopUnguarded ==
    /\ stops < MaxStops
    /\ stops' = stops + 1
    /\ stopService' = stopService + 1
    /\ stopServiceSet' = TRUE
    /\ lastOp' = "Stop"
    /\ ServiceFrame
    /\ UNCHANGED << runPc, shutDown, interrupts, shutDownOrder, exitCode >>

\* Service::Impl::Stop.
Stop ==
    /\ stops < MaxStops
    /\ stops' = stops + 1
    /\ IF ~stopServiceSet
       THEN /\ stopService' = stopService + 1
            /\ stopServiceSet' = TRUE
       ELSE UNCHANGED << stopService, stopServiceSet >>
    /\ lastOp' = "Stop"
    /\ ServiceFrame
    /\ UNCHANGED << runPc, shutDown, interrupts, shutDownOrder, exitCode >>

\* InterruptHandler, which Main installs for SIGINT around Run when the
\* service is not a daemon.
InterruptHandler ==
    /\ ~daemon
    /\ runPc \notin { "idle", "returned" }
    /\ interrupts < MaxInterrupts
    /\ interrupts' = interrupts + 1
    /\ shutDown' = TRUE
    /\ lastOp' = "InterruptHandler"
    /\ ServiceFrame
    /\ UNCHANGED << runPc, stopServiceSet, stopService, stops, shutDownOrder, exitCode >>

\* The steps of the thread that is in Run.
RunStep ==
    \/ \E outcome \in { "server", "client", "ok" } : SetUp(outcome)
    \/ LoopTest
    \/ WaitFor
    \/ ShutDown

NextService ==
    \/ RunStep
    \/ Stop
    \/ InterruptHandler

SpecService == InitService /\ [][NextService]_vars

\* The thread that is in Run keeps running.
SpecServiceLive == SpecService /\ WF_vars(RunStep)

-----------------------------------------------------------------------------
(* Notions the properties of the projection are stated with.               *)

\* The node a path addresses: the walk of DescendTree, roles aside.
Subtree(doc, p) == DescendTree(NoRolesPermitted, doc, p, 1).node

\* Every object that has a "data" key has exactly the keys "data" and "meta".
RECURSIVE WellShaped(_)
WellShaped(val) ==
    CASE val.t = "obj" ->
           /\ ("data" \in DOMAIN val.v) => (DOMAIN val.v = {"data", "meta"})
           /\ \A k \in DOMAIN val.v : WellShaped(val.v[k])
      [] val.t = "arr" -> \A i \in DOMAIN val.v : WellShaped(val.v[i])
      [] OTHER -> TRUE

\* No object has a "meta" key.
RECURSIVE NoMetaAnywhere(_)
NoMetaAnywhere(val) ==
    CASE val.t = "obj" ->
           /\ "meta" \notin DOMAIN val.v
           /\ \A k \in DOMAIN val.v : NoMetaAnywhere(val.v[k])
      [] val.t = "arr" -> \A i \in DOMAIN val.v : NoMetaAnywhere(val.v[i])
      [] OTHER -> TRUE

\* The member of an object or the entry of an array, Invalid when there is none.
At(val, k) ==
    IF val.t \in {"obj", "arr"} /\ k \in DOMAIN val.v THEN val.v[k] ELSE Invalid

\* Every scalar leaf of a is in b at the same path (null and redacted parts
\* of a are no leaves).
RECURSIVE StructuralSubset(_, _)
StructuralSubset(a, b) ==
    CASE a.t \in {"invalid", "null"} -> TRUE
      [] a.t = "obj" -> /\ b.t \in {"obj", "invalid"}
                        /\ \A k \in DOMAIN a.v : StructuralSubset(a.v[k], At(b, k))
      [] a.t = "arr" -> /\ b.t \in {"arr", "invalid"}
                        /\ \A i \in DOMAIN a.v : StructuralSubset(a.v[i], At(b, i))
      [] OTHER -> a = b

\* Every scalar leaf of a is in b at the same path, except that b may hold it
\* one level deeper under the "data" key of a wrapper, and at another array index.
RECURSIVE SubsetUpToWrappers(_, _)
SubsetUpToWrappers(a, b) ==
    \/ a.t \in {"invalid", "null"}
    \/ /\ a.t = "obj"
       /\ \A k \in DOMAIN a.v : SubsetUpToWrappers(a.v[k], At(b, k))
    \/ /\ a.t = "arr"
       /\ \A i \in DOMAIN a.v :
             \/ a.v[i].t \in {"invalid", "null"}
             \/ /\ b.t = "arr"
                /\ \E j \in DOMAIN b.v : SubsetUpToWrappers(a.v[i], b.v[j])
    \/ /\ a.t \in {"num", "str"}
       /\ a = b
    \/ /\ Has(b, "data")
       /\ SubsetUpToWrappers(a, b.v["data"])

\* The scalar leaves of a value.
RECURSIVE Leaves(_)
Leaves(val) ==
    CASE val.t \in {"obj", "arr"} -> UNION { Leaves(val.v[k]) : k \in DOMAIN val.v }
      [] val.t \in {"num", "str"} -> {val}
      [] OTHER -> {}

Called == caller # "none"

-----------------------------------------------------------------------------
(* Properties of the projection, checked under SpecGet.                    *)

\* C1 as stated: GetData with no roles held returns the subtree at the path
\* unchanged, for every document.
C1_AdminUnchanged ==
    (Called /\ rolesHeld = {}) => result = Subtree(store, path)

\* C1 amended: GetData with no roles held returns the subtree at the path
\* unchanged when every object of the subtree that has a "data" key has exactly
\* the keys "data" and "meta".
C1_AdminUnchangedWellShaped ==
    (Called /\ rolesHeld = {} /\ WellShaped(Subtree(store, path)))
        => result = Subtree(store, path)

C1_Witness ==
    /\ caller = "api" /\ rolesHeld = {} /\ path = <<"a">>
    /\ WellShaped(Subtree(store, path))
    /\ Has(result, "meta") /\ Has(result, "data")
    /\ result = Subtree(store, path)

C3_Monotone ==
    Called => \A held2 \in RoleSets :
                 rolesHeld \subseteq held2
                     => StructuralSubset(result, GetData(store, path, held2))

\* C3 amended: for a non-empty role set R and R' with R a subset of R', every leaf
\* of GetData(p, R) is in GetData(p, R'), at the same path or one level deeper
\* under the "data" key of a wrapper R' is shown, and possibly at another index
\* of its array.
C3_MonotoneNonEmpty ==
    (Called /\ rolesHeld # {})
        => \A held2 \in RoleSets :
              rolesHeld \subseteq held2
                  => SubsetUpToWrappers(result, GetData(store, path, held2))

C3_Witness ==
    /\ caller = "api" /\ rolesHeld = {"x"}
    /\ Leaves(result) # {}
    /\ Leaves(GetData(store, path, {"x", "y"})) \ Leaves(result) # {}
    /\ ~ StructuralSubset(result, GetData(store, path, {"x", "y"}))

\* C4 as stated: every leaf of GetData(p, R) is in GetData(p, {}) at the same path.
C4_SubsetOfAdmin ==
    Called => StructuralSubset(result, GetData(store, path, {}))

\* C4 amended: every leaf of GetData(p, R) is in GetData(p, {}), at the same path
\* or one level deeper under the "data" key of a wrapper, and possibly at another
\* index of its array.
C4_SubsetOfAdminUpToWrappers ==
    Called => SubsetUpToWrappers(result, GetData(store, path, {}))

C4_Witness ==
    /\ caller = "api" /\ rolesHeld = {"y"}
    /\ Leaves(result) # {}
    /\ result # GetData(store, path, {})
    /\ ~ StructuralSubset(result, GetData(store, path, {}))

C6_AdminReadBare ==
    (caller = "api" /\ store = DocSecret /\ path = <<"Secret">> /\ rolesHeld = {})
        => result = Num(42)

\* C6 amended: on the document of scenario 1, GetData(["Secret"], {}) returns the
\* policy node itself, {"data": 42, "meta": {"require": {"read_data": ["admin"]}}}.
C6_AdminReadWrapper ==
    (caller = "api" /\ store = DocSecret /\ path = <<"Secret">> /\ rolesHeld = {})
        => result = Policy(MetaAdmin, Num(42))

C6_Witness ==
    /\ caller = "api" /\ store = DocSecret /\ path = <<"Secret">> /\ rolesHeld = {}
    /\ Index(result, "data") = Num(42)

\* C7: on the document of scenario 3, Thing is 1 for a caller holding {x}, the
\* wrapper with data null and the policy descriptor as meta for {y}, and the
\* wrapper with data 1 and the policy descriptor as meta for {x, y}.
C7_MetaVisibility ==
    (Called /\ store = DocThing /\ path = <<"Thing">>)
        => /\ rolesHeld = {"x"} => result = Num(1)
           /\ rolesHeld = {"y"} => result = Policy(MetaXY, Null)
           /\ rolesHeld = {"x", "y"} => result = Policy(MetaXY, Num(1))

\* What the projection returns for {y}: a wrapper holding two redacted values.
C7_Witness ==
    /\ Called /\ store = DocThing /\ path = <<"Thing">> /\ rolesHeld = {"y"}
    /\ result = Policy(Invalid, Invalid)

-----------------------------------------------------------------------------
(* Properties of the save scheduler, checked under Spec.                   *)

\* The callbacks that would still run Save: those of the current generation.
LiveCallbacks == { cb \in scheduled \cup dispatched : cb.gen = generation }

\* Nothing is armed and nothing is left to run.
Quiescent == ~saving /\ ~dirty /\ LiveCallbacks = {}

\* All mutations of the observed window fall within less than minSaveInterval.
ShortWindow ==
    mobilized /\ winFirst # -1 /\ lastMutation - winFirst < minSaveInterval

\* C8 as stated: once the store is quiescent after mutations that all fall within
\* a window shorter than MinSaveInterval, one or two Save executions have occurred.
C8_OneOrTwoSaves ==
    (ShortWindow /\ Quiescent) => winSaves \in {1, 2}

\* C8 amended: once the store is quiescent after mutations that all fall within a
\* window shorter than MinSaveInterval, at least one and at most three Save
\* executions have occurred.
C8_OneToThreeSaves ==
    (ShortWindow /\ Quiescent) => winSaves \in {1, 2, 3}

C8_Witness ==
    /\ ShortWindow /\ Quiescent
    /\ winCount >= 3
    /\ winSaves = 3
    /\ now = winFirst + 2 * minSaveInterval

\* C9: at most one callback that can still run Save exists; ScheduleSave on a store
\* whose save is armed schedules nothing and only sets dirty; a Save that finds
\* dirty set arms exactly one follow-up save.
C9_OneSaveAtATime ==
    /\ [](Cardinality(LiveCallbacks) <= 1)
    /\ [][ /\ (lastOp' = "Mutate" /\ saving)
               => /\ dirty'
                  /\ UNCHANGED << saving, nextSaveTime, nextSaveToken, scheduled,
                                  dispatched, tokens >>
           /\ (lastOp' = "Save" /\ dirty)
               => /\ saving' /\ ~dirty'
                  /\ Cardinality(scheduled' \ scheduled) = 1
                  /\ Cardinality(LiveCallbacks') = 1 ]_vars

C9_Witness ==
    /\ lastOp = "Save"
    /\ saving /\ ~dirty
    /\ Cardinality(LiveCallbacks) = 1
    /\ winCount >= 2

\* C10: while the store is mobilized, a mutation that no Save has run after is
\* never older than MinSaveInterval.
C10_PersistenceBound ==
    (mobilized /\ unsaved) => now <= lastMutation + minSaveInterval

\* A mutation of a store mobilized for the second time waits for a save that is
\* armed later than MinSaveInterval after it.
C10_Witness ==
    /\ mobilized /\ unsaved /\ generation = 2
    /\ minSaveInterval = ShortInterval
    /\ now > lastMutation + minSaveInterval
    /\ \E cb \in LiveCallbacks : cb.due > now

\* C11: a save callback that a Demobilize left behind never runs Save and never
\* changes saving, dirty or nextSaveTime when it runs, be the store un-mobilized
\* then or mobilized again.
C11_OrphanNeverSaves ==
    [][ \A cb \in orphaned :
            (cb \in dispatched /\ cb \notin dispatched')
                => /\ lastOp' = "Stale"
                   /\ UNCHANGED << saving, dirty, nextSaveTime >> ]_vars

\* A callback dispatched in the first generation has run in the second, where a
\* save is armed, and has given up.
C11_Witness ==
    /\ lastOp = "Stale"
    /\ orphaned = {}
    /\ mobilized /\ generation = 2
    /\ saving /\ dirty
    /\ \E cb \in scheduled : cb.gen = 2

\* C12: Mobilize on a mobilized store changes nothing of the document, of
\* minSaveInterval, of the clock, of generation, saving, dirty and nextSaveTime;
\* generation grows by one on a Mobilize that mobilizes the store and is changed
\* by no other step.
C12_MobilizeIdempotent ==
    [][ /\ (lastOp' = "Mobilize" /\ mobilized)
            => UNCHANGED << store, mobilized, generation, minSaveInterval, saving,
                            dirty, nextSaveTime, nextSaveToken, scheduled,
                            dispatched, now >>
        /\ IF lastOp' = "Mobilize" /\ ~mobilized /\ mobilized'
           THEN generation' = generation + 1
           ELSE generation' = generation ]_vars

\* Mobilize was called on a store whose save is armed: no Demobilize came between.
C12_Witness ==
    /\ lastOp = "Mobilize"
    /\ mobilized /\ generation = 1
    /\ saving /\ dirty
    /\ store = DocShortInterval

-----------------------------------------------------------------------------
(* Properties of the subscriptions, checked under SpecSub.                 *)

\* The pcs at which a frame holds the mutex: each is left by one step that
\* does not block.
CriticalSections == { "read", "register", "return", "erase" }

\* No thread is blocked for ever: none waits for a mutex it holds itself, and
\* the holder is in a critical section.
NoDeadlock ==
    /\ \A t \in Threads : Waiting(t) => mutex # t
    /\ \A t \in Threads :
           mutex = t => (stack[t] # << >> /\ Top(t).pc \in CriticalSections)

\* C13: onUpdate is called once before SubscribeToData returns, with the value
\* GetData gave for the document as it was at the registration, and without the
\* mutex; no thread inside the Store is blocked for ever.
C13_OnUpdateOnceUnlocked ==
    /\ \A i \in DOMAIN subLog :
           /\ Len(subLog[i].values) <= 1
           /\ subLog[i].returned => Len(subLog[i].values) = 1
           /\ \A n \in DOMAIN subLog[i].values :
                  subLog[i].values[n]
                      = GetData(subLog[i].doc, subLog[i].arg.path, subLog[i].arg.roles)
           /\ ~subLog[i].locked
    /\ NoDeadlock

\* The onUpdate of the first call has subscribed again after another thread's
\* Mobilize changed the document, and the second call has returned while the
\* other thread holds the mutex.
C13_Witness ==
    /\ Len(subLog) = 2
    /\ subLog[2].returned /\ ~subLog[1].returned
    /\ subLog[1].doc # subLog[2].doc
    /\ subLog[1].values # subLog[2].values
    /\ Inside("t1", "SubscribeToData", "callback")
    /\ mutex = "t2"

\* C14: a cancel closure removes the subscription of the call that returned it
\* and no other, and nothing when that subscription is gone or the Store is
\* destroyed; a registration takes a token no earlier call had and removes no
\* subscription.
C14_CancelExactlyOwn ==
    [][ /\ lastOp' = "Cancel"
            => /\ subscribers' = { sub \in subscribers : sub.call # lastCall' }
               /\ ~alive => subscribers' = subscribers
               /\ UNCHANGED << nextSubscriptionToken, closures >>
        /\ lastOp' = "Register"
            => /\ \A i \in DOMAIN subLog : subLog[i].token # subLog'[lastCall'].token
               /\ subscribers \subseteq subscribers'
               /\ Cardinality(subscribers') = Cardinality(subscribers) + 1 ]_vars

\* The closure of the first call has been called twice while the subscription of
\* the second call stays registered.
C14_Witness ==
    /\ lastOp = "Cancel" /\ lastCall = 1
    /\ Len(subLog) = 2
    /\ subLog[1].cancels = "again"
    /\ { sub.call : sub \in subscribers } = { 2 }

-----------------------------------------------------------------------------
(* Properties of the session, checked under SpecWs.                        *)

\* The Roles object of the document, and the roles it lists under a key.
StoreRoles == Index(store, "Roles")
ListedRoles(identifier) ==
    LET listed == Index(StoreRoles, identifier)
    IN { listed.v[i].v : i \in DOMAIN listed.v }

\* open_time + WebSocketAuthenticationTimeout.
Deadline == openTime + AuthTimeout

\* The shapes of the texts received.
Malformed(message) == message.t # "obj" \/ "type" \notin DOMAIN message.v
IsAuthenticate(message) ==
    ~Malformed(message) /\ message.v["type"] = Str("Authenticate")
IsKeyAuthenticate(message) ==
    IsAuthenticate(message) /\ "key" \in DOMAIN message.v
Unhandled(message) ==
    ~Malformed(message) /\ ~IsAuthenticate(message)

\* The step sent one frame, an Error.
ErrorSent ==
    /\ Len(frames') = Len(frames) + 1
    /\ SubSeq(frames', 1, Len(frames)) = frames
    /\ frames'[Len(frames')].v["type"] = Str("Error")

\* The text of a string of digits kept as the sequence of its characters.
IsDecimal(chars) ==
    chars # << >> /\ \A i \in DOMAIN chars : chars[i] \in DOMAIN DigitValue
RECURSIVE Concat(_)
Concat(chars) == IF chars = << >> THEN "" ELSE Head(chars) \o Concat(Tail(chars))

\* C15: an open session is not unauthenticated beyond open_time +
\* WebSocketAuthenticationTimeout: at that time the timer sends it the Error
\* frame "Authentication timeout" and then closes it with code 1005.
C15_AuthenticationTimeout ==
    /\ []((session = "open" /\ ~authenticated) => now <= Deadline)
    /\ [][ /\ (lastOp' = "Timeout" /\ session = "open" /\ ~authenticated)
               => /\ now = Deadline
                  /\ frames' = Append(frames, ErrorFrame("Authentication timeout"))
                  /\ "timer" \in closing'
                  /\ UNCHANGED << session, closeCodes >>
           /\ (lastOp' = "CloseTimer" /\ session = "open")
               => /\ now = Deadline
                  /\ session' = "closed"
                  /\ closeCodes' = << 1005 >>
                  /\ \E i \in DOMAIN frames :
                         frames[i] = ErrorFrame("Authentication timeout") ]_vars

\* A session opened after time 0 that received nothing has been closed by its
\* timer.
C15_Witness ==
    /\ lastOp = "CloseTimer"
    /\ session = "closed"
    /\ received = 0
    /\ openTime > 0 /\ now = Deadline
    /\ frames = << ErrorFrame("Authentication timeout") >>
    /\ closeCodes = << 1005 >>

\* C16 as stated: on an authenticated session no step of the timer sends a frame
\* or closes the session.
C16_TimerIdleOnceAuthenticated ==
    [][ (authenticated /\ lastOp' \in { "Timeout", "CloseTimer" })
            => UNCHANGED << frames, session, closeCodes >> ]_vars

\* The timer has closed a session that authenticated between the timer's Error
\* frame and its call of closeDelegate.
C16_Witness ==
    /\ lastOp = "CloseTimer"
    /\ authenticated
    /\ session = "closed"
    /\ frames = << ErrorFrame("Authentication timeout"), AuthenticatedFrame >>
    /\ closeCodes = << 1005 >>

\* C17: Authenticate with key k on an unauthenticated session.  When key:k is in
\* Roles the session sends Authenticated, is authenticated and holds key:k and
\* the roles Roles lists under it, no other; else it sends an Error, stays
\* unauthenticated with its identifiers and roles as they were, and is closed
\* with code 1005.
C17_KeyAuthentication ==
    [][ /\ (lastOp' = "Text" /\ ~authenticated /\ IsKeyAuthenticate(lastMessage'))
            => LET identifier == "key:" \o lastMessage'.v["key"].v
               IN IF Has(StoreRoles, identifier)
                  THEN /\ frames' = Append(frames, AuthenticatedFrame)
                       /\ authenticated'
                       /\ identifiers' = { identifier }
                       /\ roles' = ListedRoles(identifier)
                       /\ UNCHANGED << closing, session >>
                  ELSE /\ ErrorSent
                       /\ closing' = closing \cup { "text" }
                       /\ ~authenticated'
                       /\ UNCHANGED << identifiers, roles >>
        /\ (lastOp' = "CloseText" /\ IsKeyAuthenticate(lastMessage))
            => /\ session = "open" /\ session' = "closed"
               /\ closeCodes' = Append(closeCodes, 1005) ]_vars

\* The key abc has given the session its two roles.
C17_Witness ==
    /\ lastOp = "Text"
    /\ lastMessage = Authenticate("key", "abc")
    /\ authenticated
    /\ identifiers = { "key:abc" }
    /\ roles = { "editor", "viewer" }
    /\ frames = << AuthenticatedFrame >>
    /\ session = "open" /\ closing = {}

\* C18 as stated: a reply of the validation authenticates the session when it has
\* status 200 and a decimal user_id whose identifier is in Roles; every other
\* reply sends an Error, leaves authenticated as it was and closes the session.
C18_TwitchAuthentication ==
    [][ (lastOp' = "HttpReply" /\ session = "open")
            => LET userId == AsChars(Index(lastResponse'.body, "user_id"))
                   accepted ==
                       /\ lastResponse'.statusCode = 200
                       /\ IsDecimal(userId)
                       /\ Has(StoreRoles, "twitch:" \o Concat(userId))
               IN IF accepted
                  THEN authenticated'
                  ELSE /\ authenticated' = authenticated
                       /\ ErrorSent
                       /\ "http" \in closing' ]_vars

\* A reply with user_id 42 has authenticated a session though Roles has no
\* twitch:42.
C18_Witness ==
    /\ lastOp = "HttpReply"
    /\ lastResponse = Response(200, Obj("user_id" :> Str(<< "4", "2" >>)))
    /\ ~Has(StoreRoles, "twitch:42")
    /\ authenticated
    /\ identifiers = { "twitch:42" }
    /\ roles = {}
    /\ frames = << AuthenticatedFrame >>
    /\ session = "open" /\ closing = {}

\* C19 as stated: Authenticate on an authenticated session sends an Error, leaves
\* identifiers and roles as they were and has closeDelegate called.
C19_ReauthenticationCloses ==
    [][ (lastOp' = "Text" /\ authenticated /\ IsAuthenticate(lastMessage'))
            => /\ ErrorSent
               /\ UNCHANGED << identifiers, roles >>
               /\ "text" \in closing' ]_vars

\* A second Authenticate was answered with the Error and nothing is about to
\* close the session.
C19_Witness ==
    /\ lastOp = "Text"
    /\ IsAuthenticate(lastMessage)
    /\ authenticated
    /\ frames = << AuthenticatedFrame,
                   ErrorFrame("Already authenticated; reconnect to reauthenticate") >>
    /\ session = "open" /\ closing = {} /\ closeCodes = << >>

\* C20: a text that is an object with a type no handler is registered for sends
\* an Error and leaves the session open and authenticated as it was; a text that
\* is no object or has no type sends an Error and the session is closed with
\* code 1005.
C20_UnknownAndMalformed ==
    [][ /\ (lastOp' = "Text" /\ Unhandled(lastMessage'))
            => /\ ErrorSent
               /\ UNCHANGED << closing, session, closeCodes, authenticated,
                               identifiers, roles >>
        /\ (lastOp' = "Text" /\ Malformed(lastMessage'))
            => /\ ErrorSent
               /\ closing' = closing \cup { "text" }
        /\ (lastOp' = "CloseText" /\ Malformed(lastMessage))
            => /\ session = "open" /\ session' = "closed"
               /\ closeCodes' = Append(closeCodes, 1005) ]_vars

\* A session awaiting authentication got a text of an unknown type, answered
\* with an Error, and then a malformed text, which closed it.
C20_Witness ==
    /\ lastOp = "CloseText"
    /\ Malformed(lastMessage)
    /\ identifiers = {}
    /\ Len(frames) = 2
    /\ frames[1].v["message"] = Str("Unknown message type received: Subscribe")
    /\ frames[2] = ErrorFrame("malformed message received")
    /\ session = "closed"
    /\ closeCodes = << 1005 >>

-----------------------------------------------------------------------------
(* Notions the properties of UpdateRoles are stated with.                  *)

\* The roles an array lists; a value that is no array lists none.
Listed(val) ==
    IF val.t = "arr" THEN { val.v[i].v : i \in DOMAIN val.v } ELSE {}

NodeRequire == Index(nodeMeta, "require")
NodeAllow == Index(nodeMeta, "allow")

\* C28 as stated: after the require step of UpdateRoles at a policy node, for
\* each of the six operations K, RolesPermitted[K] is exactly the roles listed
\* in require.K when require has the key K, and is the inherited set otherwise.
C28_RequireReplaces ==
    lastOp = "UpdateRoles"
        => \A K \in Operations :
               required[Field[K]] = IF Has(NodeRequire, K)
                                    THEN Listed(Index(NodeRequire, K))
                                    ELSE inherited[Field[K]]

\* require.create_data lists x, the inherited createData was {y}, and after the
\* require step createData is empty.
C28_Witness ==
    /\ lastOp = "UpdateRoles"
    /\ nodeMeta = MetaRequire("create_data" :> RoleArray(<<"x">>))
    /\ inherited.createData = { "y" }
    /\ required.createData = {}

\* C29: after UpdateRoles at a policy node, for K among read_data, read_meta,
\* write_data and write_meta, RolesPermitted[K] holds every role of require.K
\* and of allow.K and every role the require step left; the roles of
\* allow.write_data are in read_data too and those of allow.write_meta in
\* read_meta; require.write_data and require.write_meta leave the read sets as
\* inherited.
C29_AllowAfterRequire ==
    lastOp = "UpdateRoles"
        => /\ \A K \in { "read_data", "read_meta", "write_data", "write_meta" } :
                  /\ Listed(Index(NodeRequire, K)) \subseteq innerRolesPermitted[Field[K]]
                  /\ Listed(Index(NodeAllow, K)) \subseteq innerRolesPermitted[Field[K]]
                  /\ required[Field[K]] \subseteq innerRolesPermitted[Field[K]]
           /\ Listed(Index(NodeAllow, "write_data")) \subseteq innerRolesPermitted.readData
           /\ Listed(Index(NodeAllow, "write_meta")) \subseteq innerRolesPermitted.readMeta
           /\ ~Has(NodeRequire, "read_data") => required.readData = inherited.readData
           /\ ~Has(NodeRequire, "read_meta") => required.readMeta = inherited.readMeta

\* A node whose meta requires x and allows y for write_data, entered with y
\* inherited for read_data only: write_data is {x, y}, read_data is still {y}
\* after the require step and gains nothing but y.
C29_Witness ==
    /\ lastOp = "UpdateRoles"
    /\ nodeMeta = Obj(("require" :> Obj("write_data" :> RoleArray(<<"x">>)))
                   @@ ("allow" :> Obj("write_data" :> RoleArray(<<"y">>))))
    /\ inherited.readData = {}
    /\ required.readData = {}
    /\ required.writeData = { "x" }
    /\ innerRolesPermitted.writeData = { "x", "y" }
    /\ innerRolesPermitted.readData = { "y" }

-----------------------------------------------------------------------------
(* Notions the properties of the projection of objects are stated with.    *)

\* The walk to the node a path addresses, with the roles accumulated.
Scope(p) == DescendTree(NoRolesPermitted, store, p, 1)

\* What the node a path addresses is projected to, before GetData turns a
\* redacted result into null.
Projection(p, held) == ExtractData(Scope(p).rp, Scope(p).node, held)

\* The last call addressed an object that is no policy node.
PlainObjectRead ==
    /\ Called
    /\ Scope(path).node.t = "obj"
    /\ ~Has(Scope(path).node, "data")

ReadDataPermitted ==
    rolesHeld = {} \/ Scope(path).rp.readData \cap rolesHeld # {}

\* The keys of the addressed object whose values are projected to something.
VisibleKeys ==
    { k \in DOMAIN Scope(path).node.v :
          Projection(Append(path, k), rolesHeld).t # "invalid" }

-----------------------------------------------------------------------------
(* Notions the properties of the HTTP resources are stated with.           *)

Registration(name) == CHOOSE r \in HandlerRegistrations : r.handler = name

CorsHeader == << "Access-Control-Allow-Origin", "*" >>

\* C26: a request served when the Store is gone gets 503, whatever its method;
\* with the Store there, a method outside the registered set gets 405 and the
\* handler is not called; otherwise the handler is called and the status is 200
\* unless the handler set another (Unknown sets 404).  The header
\* Access-Control-Allow-Origin: * is there exactly when the status is 2xx.
C26_ResourceWrapper ==
    lastOp = "Serve"
        => /\ IF ~alive
              THEN httpResponse.statusCode = 503 /\ handled = "none"
              ELSE IF httpRequest.method \notin Registration(httpRequest.resource).methods
              THEN httpResponse.statusCode = 405 /\ handled = "none"
              ELSE /\ handled = httpRequest.resource
                   /\ httpResponse.statusCode =
                          IF httpRequest.resource = "Unknown" THEN 404 ELSE 200
           /\ CorsHeader \in httpResponse.headers
                  <=> httpResponse.statusCode \in 200..299

\* A request with a method that is not registered, served after the Store has
\* gone: 503, no handler called, no Access-Control-Allow-Origin.
C26_Witness ==
    /\ lastOp = "Serve"
    /\ ~alive
    /\ httpRequest.resource = "Test"
    /\ httpRequest.method = "PUT"
    /\ httpResponse.statusCode = 503
    /\ handled = "none"
    /\ CorsHeader \notin httpResponse.headers

\* C27 as stated, for a Store that is there: a request routed to the catch-all
\* resource gets 404 with the body {"message":"No such resource defined"},
\* whatever its method.
C27_CatchAllNotFound ==
    (lastOp = "Serve" /\ alive /\ httpRequest.resource = "Unknown")
        => /\ httpResponse.statusCode = 404
           /\ httpResponse.reasonPhrase = "Not Found"
           /\ httpResponse.body = ToEncoding(Obj("message" :> Str("No such resource defined")))

\* A PATCH request routed to the catch-all resource got 405 and an empty body.
C27_Witness ==
    /\ lastOp = "Serve"
    /\ alive
    /\ httpRequest.resource = "Unknown"
    /\ httpRequest.method = "PATCH"
    /\ httpResponse.statusCode = 405
    /\ httpResponse.body = << >>
    /\ handled = "none"

-----------------------------------------------------------------------------
(* Notions the properties of the outbound transactions are stated with.    *)

\* The ids the session has used for transactions it still knows of.
UsedIds ==
    httpClientTransactions \cup inFlight
        \cup { callbacks[i].id : i \in DOMAIN callbacks }

\* C25: a transaction that a session posts gets an id no other transaction of
\* the session has; a completion that finds the Client alive and the entry in
\* its table erases the entry and then calls onCompletion, once, within the
\* step that holds the Client's mutex; a completion that finds the Client gone
\* calls nothing and changes nothing of the session; no id has its onCompletion
\* called twice.
C25_Transactions ==
    /\ [](\A i, j \in DOMAIN callbacks :
              callbacks[i].id = callbacks[j].id => i = j)
    /\ [][ /\ lastOp' = "Text"
               => /\ (httpClientTransactions' \ httpClientTransactions) \cap UsedIds = {}
                  /\ inFlight' \ inFlight
                         = httpClientTransactions' \ httpClientTransactions
           /\ (lastOp' = "HttpReply" /\ ClientAlive)
               => \E id \in inFlight \cap httpClientTransactions :
                      /\ inFlight' = inFlight \ { id }
                      /\ httpClientTransactions' = httpClientTransactions \ { id }
                      /\ callbacks' = Append(callbacks,
                             [id |-> id, found |-> httpClientTransactions \ { id }])
           /\ (lastOp' = "HttpReply" /\ ~ClientAlive)
               => UNCHANGED << callbacks, frames, authenticated, identifiers, roles,
                               closing, session >> ]_vars

\* Two transactions were posted; the first completed while the session was
\* open and its onCompletion found only the second in the table; the session
\* was closed, and the second completed with the Client gone: no second call.
C25_Witness ==
    /\ lastOp = "HttpReply"
    /\ session = "closed"
    /\ closing = {}
    /\ nextHttpClientTransactionId = 3
    /\ inFlight = {}
    /\ callbacks = << [id |-> 1, found |-> { 2 }] >>

-----------------------------------------------------------------------------
(* Notions the properties of the listener are stated with.                 *)

\* The steps that run a closure under ApiWs::Impl::mutex.
ClosureSteps == { "RunText", "RunClose", "RunSession", "Linger" }

LingersOf(w) == { call \in lingers : call.ws = w }

\* C21: for every session, ws->Close and Client::OnClosed are each called at
\* most once, whichever of the close delegate of the WebSocket, the close
\* delegate of the session and the sweep of Demobilize come, and in whatever
\* order; a step leaves a slot that is absent or nulled uncounted, and with no
\* erase callback more than it had.
C21_CloseOnce ==
    /\ [](\A w \in WebSockets : wsCloses[w] <= 1 /\ onClosedCalls[w] <= 1)
    /\ [][ \A w \in WebSockets :
               clients[w] # "client"
                   => /\ wsCloses'[w] = wsCloses[w]
                      /\ onClosedCalls'[w] = onClosedCalls[w]
                      /\ closedAt'[w] = closedAt[w]
                      /\ { call \in lingers' : call.ws = w } \subseteq LingersOf(w) ]_vars

\* The close delegate of a WebSocket has run CloseWebSocket, in the generation
\* it was made in, on a slot that had been nulled at an earlier time: one Close,
\* one OnClosed, one erase callback.
C21_Witness ==
    /\ lastOp = "RunClose"
    /\ ~Stale(lastRan.gen)
    /\ clients[lastRan.ws] = "null"
    /\ closedAt[lastRan.ws] >= 0
    /\ closedAt[lastRan.ws] < now
    /\ wsCloses[lastRan.ws] = 1
    /\ onClosedCalls[lastRan.ws] = 1
    /\ Cardinality(LingersOf(lastRan.ws)) = 1

\* C22: while the listener stays mobilized in the generation a session was
\* closed in, the session's entry is there with its slot nulled at every time
\* before the close time plus WebSocketCloseLinger and gone at every later
\* time; the erase callback erases it at exactly that time; whatever the
\* listener does, no entry of a closed session is there after that time.
C22_LingerThenDrop ==
    /\ [](\A w \in WebSockets :
              closedAt[w] >= 0
                  => /\ (~Stale(createdIn[w]) /\ now < closedAt[w] + CloseLinger)
                         => clients[w] = "null"
                     /\ now > closedAt[w] + CloseLinger => clients[w] = "absent")
    /\ [][ \A w \in WebSockets :
               (clients[w] = "null" /\ clients'[w] = "absent" /\ listenerMobilized')
                   => /\ lastOp' = "Linger"
                      /\ now = closedAt[w] + CloseLinger ]_vars

\* The erase callback has erased the entry of a session closed CloseLinger
\* before, in a listener that stayed mobilized.
C22_Witness ==
    /\ lastOp = "Linger"
    /\ ~Stale(lastRan.gen)
    /\ closedAt[lastRan.ws] >= 0
    /\ now = closedAt[lastRan.ws] + CloseLinger
    /\ clients[lastRan.ws] = "absent"

\* C23 as stated: a text delegate or close delegate that runs, in the
\* generation it was made in, for a WebSocket whose slot is nulled changes
\* nothing, calls no handler and goes through no null slot.
C23_LateDeliveryIgnored ==
    [][ (lastOp' \in { "RunText", "RunClose" } /\ ~Stale(lastRan'.gen)
         /\ clients[lastRan'.ws] = "null")
            => /\ UNCHANGED << clients, lingers, wsCloses, onClosedCalls, closedAt,
                               texts, crashed >>
               /\ ~nullDeref' ]_vars

\* A text delegate has run for a WebSocket whose slot was nulled and whose
\* entry was still there: OnText was called through the null slot and the
\* process has ended.
C23_Witness ==
    /\ lastOp = "RunText"
    /\ ~Stale(lastRan.gen)
    /\ clients[lastRan.ws] = "null"
    /\ closedAt[lastRan.ws] >= 0
    /\ texts[lastRan.ws] = 0
    /\ nullDeref
    /\ crashed

\* C24: a close, text or erase closure, or a session's close delegate, that
\* runs when the listener is not mobilized or is in another generation than
\* the one the closure was made in gives no text to a session, closes
\* nothing, erases nothing and schedules nothing.
C24_StaleClosuresIdle ==
    [][ (lastOp' \in ClosureSteps /\ Stale(lastRan'.gen))
            => /\ UNCHANGED << clients, wsCloses, onClosedCalls, closedAt, texts,
                               nullDeref, crashed >>
               /\ lingers' \subseteq lingers ]_vars

\* The close delegate of a session of the first generation has run in the
\* second, where another session is registered: that session is untouched.
C24_Witness ==
    /\ lastOp = "RunSession"
    /\ lastRan.gen = 1
    /\ listenerGeneration = 2
    /\ listenerMobilized
    /\ clients[lastRan.ws] = "absent"
    /\ \E w \in WebSockets : createdIn[w] = 2 /\ clients[w] = "client" /\ wsCloses[w] = 0

-----------------------------------------------------------------------------
(* More properties of the projection, checked under SpecGet.               *)

\* The Invalid value is somewhere in a value.
RECURSIVE HasInvalid(_)
HasInvalid(val) ==
    \/ val.t = "invalid"
    \/ /\ val.t \in {"obj", "arr"}
       /\ \E k \in DOMAIN val.v : HasInvalid(val.v[k])

\* C31: the value GetData returns holds the Invalid value nowhere, whatever
\* the document, the path and the roles held.
C31_SentinelNeverReturned ==
    Called => ~HasInvalid(result)

\* GetData has returned, to a caller that holds roles, a wrapper whose "data"
\* member is the Invalid value.
C31_Witness ==
    /\ Called
    /\ rolesHeld # {}
    /\ Has(result, "data")
    /\ Index(result, "data").t = "invalid"
    /\ Has(Subtree(store, path), "data")

\* The node the last call addressed is a policy node whose data is directly a
\* policy node.
NestedPolicy ==
    /\ Has(Scope(path).node, "data")
    /\ Has(Index(Scope(path).node, "data"), "data")

\* The RolesPermitted of the outer and of the inner of two such nodes.
OuterRoles == UpdateRoles(Scope(path).rp, Index(Scope(path).node, "meta"))
InnerNode  == Index(Scope(path).node, "data")
InnerRoles == UpdateRoles(OuterRoles, Index(InnerNode, "meta"))

\* What the result holds in the place of the inner node.
InnerProjection ==
    IF RolePermitted(OuterRoles.readMeta, rolesHeld) THEN Index(result, "data")
    ELSE result

\* C32: where a policy node is directly the data of a policy node, a caller
\* whose roles the inner node does not permit read_data gets none of the inner
\* data, and a caller whose roles the inner node does not permit read_meta
\* gets no "meta" member for the inner node.
C32_NestedPolicyApplied ==
    (Called /\ NestedPolicy /\ rolesHeld # {})
        => /\ ~RolePermitted(InnerRoles.readData, rolesHeld)
                  => Leaves(Index(InnerNode, "data")) \cap Leaves(result) = {}
           /\ ~RolePermitted(InnerRoles.readMeta, rolesHeld)
                  => ~Has(InnerProjection, "meta")

\* A caller that the inner node permits neither read_data nor read_meta has
\* got the inner node whole, data and meta.
C32_Witness ==
    /\ Called /\ NestedPolicy /\ rolesHeld # {}
    /\ ~RolePermitted(InnerRoles.readData, rolesHeld)
    /\ ~RolePermitted(InnerRoles.readMeta, rolesHeld)
    /\ InnerProjection = InnerNode

-----------------------------------------------------------------------------
(* More properties of the save scheduler, checked under Spec.              *)

\* C33: a step that schedules a save schedules it at the later of nextSaveTime
\* and the current time and leaves nextSaveTime one minSaveInterval after
\* that; the save scheduled before it in the same mobilization was scheduled
\* at least minSaveInterval earlier.
C33_SaveSpacing ==
    [][ lastScheduled'.token # lastScheduled.token
            => /\ lastScheduled'.due = IF nextSaveTime < now THEN now ELSE nextSaveTime
               /\ nextSaveTime' = lastScheduled'.due + minSaveInterval
               /\ lastScheduled'.gen = lastScheduled.gen
                      => lastScheduled'.due - lastScheduled.due >= minSaveInterval ]_vars

\* A second save of the first mobilization is scheduled, for a time that is
\* still to come: the spacing, not the clock, has set its time.
C33_Witness ==
    /\ mobilized
    /\ generation = 1
    /\ saving
    /\ tokens >= 2
    /\ lastScheduled.token = nextSaveToken
    /\ lastScheduled \in scheduled
    /\ lastScheduled.due > now
    /\ lastScheduled.due >= minSaveInterval

-----------------------------------------------------------------------------
(* Properties of the locking, checked under SpecLocks.                     *)

\* Some threads wait for each other in a cycle: each is about to lock a mutex
\* that one of them holds.
WaitCycle ==
    \E T \in (SUBSET LockThreads) \ { {} } :
        \A t \in T : Blocked(t) /\ lockOwner[Head(program[t]).k] \in T

\* C34: no thread is at the call of the close delegate with the session's
\* mutex held, no threads wait for each other in a cycle over the listener's,
\* the session's and the Store's mutex, and a thread that has returned holds
\* no mutex.
C34_NoLockCycle ==
    /\ ~WaitCycle
    /\ \A t \in LockThreads :
           /\ (program[t] # << >> /\ Head(program[t]).op = "closeDelegate")
                  => lockOwner["session"] # t
           /\ program[t] = << >> => \A k \in Locks : lockOwner[k] # t

\* Threads wait in a chain that does not close: the timer, past its unlock,
\* and the close delegate of the WebSocket for the listener's mutex that
\* Demobilize holds, Demobilize for the session's mutex that the completion
\* delegate holds inside Store::GetData.
C34_Witness ==
    /\ Blocked("timer") /\ Blocked("close") /\ lockOwner["listener"] = "main"
    /\ Blocked("main") /\ lockOwner["session"] = "completion"
    /\ lockOwner["store"] = "completion"

-----------------------------------------------------------------------------
(* Properties of the service, checked under SpecServiceLive.               *)

\* Run is in its wait loop and has been told to stop.
ToldToStop ==
    /\ runPc \in { "loop", "wait" }
    /\ stopService > 0 \/ shutDown

\* C35: once Run, set up, is in its wait loop and Stop has been called or
\* the shutDown flag is set, Run returns EXIT_SUCCESS having demobilized the
\* WS listener, the HTTP client and the HTTP server in that order; the
\* components are never demobilized in another order; however often Stop is
\* called, the promise is set at most once.
C35_CleanStop ==
    /\ ToldToStop ~> (runPc = "returned" /\ exitCode = EXIT_SUCCESS
                      /\ shutDownOrder = Components)
    /\ [](\E n \in 0..Len(Components) : shutDownOrder = SubSeq(Components, 1, n))
    /\ [](exitCode = EXIT_SUCCESS => shutDownOrder = Components)
    /\ [](stopService <= 1)

\* Run has returned EXIT_SUCCESS after two calls of Stop that set the promise
\* once.
C35_Witness ==
    /\ runPc = "returned"
    /\ exitCode = EXIT_SUCCESS
    /\ shutDownOrder = Components
    /\ stops = 2
    /\ stopService = 1
    /\ ~shutDown

-----------------------------------------------------------------------------
(* More properties of the lifecycle, checked under Spec.                   *)

\* C36: a Mobilize of a store that is not mobilized and that fails leaves the
\* store not mobilized and its document, its generation and its
\* minSaveInterval as they were.
C36_FailedMobilizeChangesNothing ==
    [][ (lastOp' = "Mobilize" /\ ~mobilized /\ ~mobilized')
            => UNCHANGED << store, generation, minSaveInterval >> ]_vars

\* A store that was mobilized and demobilized holds the Invalid value that a
\* failed Mobilize left in place of its document.
C36_Witness ==
    /\ lastOp = "Mobilize"
    /\ ~mobilized
    /\ generation >= 1
    /\ store = Invalid

-----------------------------------------------------------------------------
(* More properties of the session, checked under SpecWs.                   *)

\* The number of Authenticated frames sent to the peer.
AuthenticatedFrames ==
    Cardinality({ i \in DOMAIN frames : frames[i] = AuthenticatedFrame })

\* C37: a session sends the Authenticated frame at most once, whatever
\* Authenticate messages it receives and whenever the validations complete.
C37_AuthenticatedOnce ==
    AuthenticatedFrames <= 1

\* A session has sent the Authenticated frame twice.
C37_Witness ==
    /\ authenticated
    /\ AuthenticatedFrames = 2

\* C38: an authenticated session holds at least one role, whatever the Roles
\* object lists and whichever way the session was authenticated.
C38_AuthenticatedHoldsRoles ==
    authenticated => roles # {}

\* A key that Roles maps to an empty list has authenticated a session that
\* holds no role.
C38_Witness ==
    /\ authenticated
    /\ identifiers = { "key:abc" }
    /\ Has(StoreRoles, "key:abc")
    /\ roles = {}
    /\ frames = << AuthenticatedFrame >>

-----------------------------------------------------------------------------
(* Properties of the projection that compare calls, checked under SpecGet. *)

\* The keys a path is extended with.
Keys == { "a", "b", "data", "meta", "Public", "Secret", "Thing", "none" }

\* The object the last call addressed: the node itself, or its data when the
\* node is a policy node.
AddressedData ==
    IF Has(Scope(path).node, "data") THEN Index(Scope(path).node, "data")
    ELSE Scope(path).node

\* The part of the result that stands for that object: the "data" member when
\* the result is the wrapper of a policy node, else the result.
DataPart ==
    IF /\ Has(Scope(path).node, "data")
       /\ RolePermitted(UpdateRoles(Scope(path).rp, Index(Scope(path).node, "meta")).readMeta,
                        rolesHeld)
    THEN Index(result, "data")
    ELSE result

\* C39: for a caller that holds roles and a path that addresses an object,
\* plain or the data of a policy node, GetData of the path extended by a key
\* is the member the result has under that key, and null when it has none.
C39_DeeperRevealsNoMore ==
    (Called /\ rolesHeld # {} /\ AddressedData.t = "obj")
        => \A k \in Keys :
               GetData(store, Append(path, k), rolesHeld) =
                   IF Has(DataPart, k) THEN DataPart.v[k] ELSE Null

\* A call below the root has addressed the data of a policy node, of which
\* the result shows one member and hides another.
C39_Witness ==
    /\ Called /\ rolesHeld # {} /\ AddressedData.t = "obj"
    /\ path # << >>
    /\ Has(Scope(path).node, "data")
    /\ \E k \in DOMAIN AddressedData.v : Has(DataPart, k)
    /\ \E k \in DOMAIN AddressedData.v :
           ~Has(DataPart, k) /\ GetData(store, Append(path, k), rolesHeld) = Null

\* The places of the policy nodes whose meta is changed.
Positions ==
    { <<"a">>, <<"b">>, <<"a", "a">>, <<"a", "b">>, <<"Secret">>, <<"Thing">> }

RECURSIVE WithMeta(_, _, _, _)

\* The document with the meta of the policy node at path q replaced by m; it
\* follows the keys as DescendTree does.
WithMeta(root, q, offset, m) ==
    IF offset > Len(q) THEN Obj(("meta" :> m) @@ root.v)
    ELSE IF Has(root, "data")
         THEN LET data == Index(root, "data")
              IN Obj([root.v EXCEPT !["data"] =
                         Obj([data.v EXCEPT ![q[offset]] =
                                 WithMeta(data.v[q[offset]], q, offset + 1, m)])])
         ELSE Obj([root.v EXCEPT ![q[offset]] =
                     WithMeta(root.v[q[offset]], q, offset + 1, m)])

IsPrefix(p, q) == Len(p) <= Len(q) /\ SubSeq(q, 1, Len(p)) = p

\* The policy nodes of the store that the last call's path does not lie under.
PolicyNodesBeside == { q \in Positions : Has(Subtree(store, q), "data") /\ ~IsPrefix(q, path) }

\* The part of a result for the last call's path that stands for the object
\* addressed, as in DataPart.
DataPartOf(res) ==
    IF /\ Has(Scope(path).node, "data")
       /\ RolePermitted(UpdateRoles(Scope(path).rp, Index(Scope(path).node, "meta")).readMeta,
                        rolesHeld)
    THEN Index(res, "data")
    ELSE res

\* C40: when the meta of a policy node is replaced, a path that does not lie
\* in that node's subtree is reached with the same RolesPermitted; the result
\* for a path beside the subtree is the same, and the result for a path above
\* it is the same in every member but the one that leads to the node.
C40_MetaStaysInSubtree ==
    Called =>
        \A q \in PolicyNodesBeside : \A m \in Metas :
            LET changed == WithMeta(store, q, 1, m)
                after   == GetData(changed, path, rolesHeld)
            IN /\ DescendTree(NoRolesPermitted, changed, path, 1).rp = Scope(path).rp
               /\ ~IsPrefix(path, q) => after = result
               /\ IsPrefix(path, q) =>
                      \A k \in Keys \ { q[Len(path) + 1] } :
                          Index(DataPartOf(after), k) = Index(DataPartOf(result), k)

\* A caller that holds roles has read an object with a policy node under one
\* key and a visible member under another, and some replacement of the
\* node's meta changes what is read at the node.
C40_Witness ==
    /\ Called /\ rolesHeld # {}
    /\ \E q \in PolicyNodesBeside :
           /\ IsPrefix(path, q)
           /\ \E k \in Keys \ { q[Len(path) + 1] } : Has(DataPartOf(result), k)
           /\ \E m \in Metas :
                  GetData(WithMeta(store, q, 1, m), q, rolesHeld) # GetData(store, q, rolesHeld)

====
